---- MODULE Spec2Model ----
(***************************************************************************)
(* Model of the topology-aware CPU tree allocator of the balloons policy   *)
(* (pkg/cri/resource-manager/policy/builtin/balloons/cputree.go) and of    *)
(* the table-driven driver TestResizeCpus (cputree_test.go).               *)
(*                                                                         *)
(* Pointers to cpuTreeNode objects are indices into the sequence `nodes`;  *)
(* the nil pointer is NilNode.  CPU sets (cpuset.CPUSet) are sets of       *)
(* naturals; ToSlice() enumerates them in ascending order.  Go slices are  *)
(* 0-based, sequences here are 1-based: slice index k is sequence index    *)
(* k+1.                                                                    *)
(***************************************************************************)
EXTENDS Integers, Sequences, FiniteSets, TLC

VARIABLES
    nodes,            \* heap of cpuTreeNode objects: [parent, children, cpus]
    ta,               \* the cpuTreeAllocator: [root, topologyBalancing]
    tc,               \* name of the running case ("call" = one direct call)
    i,                \* index of the next delta of the case (0-based)
    currentCpus,      \* the driver's currentCpus
    freeCpus,         \* the driver's freeCpus
    ccidCurrentCpus,  \* the driver's map ccid -> CPU set
    args,             \* arguments of the last call (of ResizeCpus unless said otherwise)
    ret,              \* its return values ([addFrom, removeFrom, err] for ResizeCpus)
    called,           \* TRUE once the call has returned
    ties,             \* the sort.Slice the build links (see TieOrders)
    failed            \* t.Failed() of the running case, as TestResizeCpus reads it

vars == <<nodes, ta, tc, i, currentCpus, freeCpus, ccidCurrentCpus, args, ret, called, ties, failed>>

NilNode == 0

\* error values returned by ResizeCpus
ErrNil == "nil"
ErrNotEnoughFree == "not enough free CPUs"
ErrNoSingleCpu == "internal error: failed to find single cpu to free"
ErrDoubleRelease == "internal error: double release of a cpu"

----------------------------------------------------------------------------
(* Small helpers for sets and sequences                                    *)

Min(S) == CHOOSE x \in S : \A y \in S : x <= y
Max(S) == CHOOSE x \in S : \A y \in S : x >= y

\* the first n ids of S.ToSlice(), which is in ascending order (the driver's
\* "for n, cpuID := range S.ToSlice() { if n >= delta { break } ... }")
RECURSIVE FirstN(_, _)
FirstN(S, n) == IF n <= 0 \/ S = {} THEN {} ELSE {Min(S)} \cup FirstN(S \ {Min(S)}, n - 1)

----------------------------------------------------------------------------
(* Tree construction: NewCpuTree, AddChild, AddCpus on a heap h            *)

\* NewCpuTree: a fresh node with no parent, no children and no CPUs is
\* appended to the heap; its pointer is Len of the new heap.
NewCpuTree(h) == Append(h, [parent |-> NilNode, children |-> <<>>, cpus |-> {}])

\* t.AddChild(child)
AddChild(h, t, child) ==
    [h EXCEPT ![child].parent = t,
              ![t].children = Append(h[t].children, child)]

\* t.AddCpus(cpus): union into t and, recursively, into all its parents
RECURSIVE AddCpus(_, _, _)
AddCpus(h, t, cpus) ==
    LET h1 == [h EXCEPT ![t].cpus = h[t].cpus \cup cpus]
    IN IF h1[t].parent # NilNode THEN AddCpus(h1, h1[t].parent, cpus) ELSE h1

\* newCpuTreeFromInt5: the five nested loops, as one loop over the nesting
\* level lvl (1 = package .. 5 = thread).  st = [h, cpuID, csit]; path holds
\* the nodes of the enclosing loops (they stand for the names of csit).
RECURSIVE int5Loop(_, _, _, _, _, _)
int5Loop(st, pdnct, lvl, parentTree, path, k) ==
    IF k >= pdnct[lvl] THEN st
    ELSE LET h1 == NewCpuTree(st.h)
             t == Len(h1)
             h2 == AddChild(h1, parentTree, t)
             st3 == IF lvl = Len(pdnct)
                    THEN [h |-> AddCpus(h2, t, {st.cpuID}),
                          cpuID |-> st.cpuID + 1,
                          csit |-> st.csit @@ (st.cpuID :> Append(path, t))]
                    ELSE int5Loop([st EXCEPT !.h = h2], pdnct, lvl + 1, t, Append(path, t), 0)
         \* the body of iteration k is complete (st3 computed) before
         \* iteration k+1 starts
         IN IF st3.cpuID >= st.cpuID
            THEN int5Loop(st3, pdnct, lvl, parentTree, path, k + 1)
            ELSE st3

\* returns [h, cpuID, csit]; the system tree is node 1 of h
newCpuTreeFromInt5(pdnct) ==
    int5Loop([h |-> NewCpuTree(<<>>), cpuID |-> 0, csit |-> <<>>], pdnct, 1, 1, <<>>, 0)

\* t.Cpus()
Cpus(t) == nodes[t].cpus

\* the two errors of the early-exit convention of DepthFirstWalk
WalkSkipChildren == "skip children"
WalkStop == "stop"

\* t.DepthFirstWalk(handler).  The handler is given as the function from
\* nodes to the error it returns on them; the result is the sequence of the
\* nodes the handler was called on, in call order, and the returned error.
\* slip: "skip children" is returned to the caller like any other error
RECURSIVE DepthFirstWalkSkipIsError(_, _)
RECURSIVE DepthFirstWalk(_, _)
RECURSIVE DepthFirstWalkChildren(_, _, _)
DepthFirstWalkSkipIsError(t, handler) ==
    LET err == handler[t]
    IN IF err # ErrNil THEN [calls |-> <<t>>, err |-> err]
       ELSE LET r == DepthFirstWalkChildren(nodes[t].children, 1, handler)
            IN [calls |-> <<t>> \o r.calls, err |-> r.err]

\* slip: the children of a node are walked although the handler returned
\* "skip children" on it
RECURSIVE DepthFirstWalkDescendsAfterSkip(_, _)
DepthFirstWalkDescendsAfterSkip(t, handler) ==
    LET err == handler[t]
    IN IF err # ErrNil /\ err # WalkSkipChildren THEN [calls |-> <<t>>, err |-> err]
       ELSE LET r == DepthFirstWalkChildren(nodes[t].children, 1, handler)
            IN [calls |-> <<t>> \o r.calls, err |-> r.err]

DepthFirstWalk(t, handler) ==
    LET err == handler[t]
    IN IF err # ErrNil
       THEN IF err = WalkSkipChildren THEN [calls |-> <<t>>, err |-> ErrNil]
            ELSE [calls |-> <<t>>, err |-> err]
       ELSE LET r == DepthFirstWalkChildren(nodes[t].children, 1, handler)
            IN [calls |-> <<t>> \o r.calls, err |-> r.err]

\* the loop "for _, child := range t.children", from its k-th iteration on
DepthFirstWalkChildren(chs, k, handler) ==
    IF k > Len(chs) THEN [calls |-> <<>>, err |-> ErrNil]
    ELSE LET r == DepthFirstWalk(chs[k], handler)
         IN IF r.err # ErrNil THEN r
            ELSE LET rest == DepthFirstWalkChildren(chs, k + 1, handler)
                 IN [calls |-> r.calls \o rest.calls, err |-> rest.err]

----------------------------------------------------------------------------
(* Attribution pass                                                        *)

\* The filter closures handed to ToAttributedSlice, as data:
\*   [kind |-> "nil"]                   no filter
\*   [kind |-> "resize", delta |-> d]   the closure built by resizeCpus
\*   [kind |-> "nodes", accept |-> S]   a closure that accepts the descriptors
\*                                      of the nodes of S and no others
\* slip: a branch with delta-1 free CPUs passes the growth test
resizeFilterOffByOne(tna, delta) ==
    IF delta > 0 /\ tna.freeCpuCount - delta < -1 THEN FALSE
    ELSE IF delta < 0 /\ tna.currentCpuCount + delta < 0 THEN FALSE
    ELSE TRUE

\* slip: the growth test is dropped
resizeFilterNoGrowthTest(tna, delta) ==
    IF delta < 0 /\ tna.currentCpuCount + delta < 0 THEN FALSE
    ELSE TRUE

\* slip: the release test is dropped
resizeFilterNoReleaseTest(tna, delta) ==
    IF delta > 0 /\ tna.freeCpuCount - delta < 0 THEN FALSE
    ELSE TRUE

resizeFilter(tna, delta) ==
    IF delta > 0 /\ tna.freeCpuCount - delta < 0 THEN FALSE
    ELSE IF delta < 0 /\ tna.currentCpuCount + delta < 0 THEN FALSE
    ELSE TRUE

\* "filter != nil && !filter(&tna)" is ~FilterAccepts(filter, tna)
FilterAccepts(filter, tna) ==
    IF filter.kind = "nil" THEN TRUE
    ELSE IF filter.kind = "nodes" THEN tna.t \in filter.accept
    ELSE resizeFilter(tna, filter.delta)

\* t.toAttributedSlice(...): the descriptors appended to *tnas by this call,
\* in the order they are appended.  depth is 0-based as in the code.
RECURSIVE toAttributedSlice(_, _, _, _, _, _, _)
RECURSIVE toAttributedSliceChildren(_, _, _, _, _, _, _, _)
\* slip: a rejected node is left out but its children are still visited
RECURSIVE toAttributedSlicePrunesNodeOnly(_, _, _, _, _, _, _)
toAttributedSlicePrunesNodeOnly(t, current, free, filter, depth, currentCpuCounts, freeCpuCounts) ==
    LET currentCpusHere == nodes[t].cpus \cap current
        freeCpusHere == nodes[t].cpus \cap free
        currentCpuCountHere == Cardinality(currentCpusHere)
        currentCpuCountsHere == Append(currentCpuCounts, currentCpuCountHere)
        freeCpuCountHere == Cardinality(freeCpusHere)
        freeCpuCountsHere == Append(freeCpuCounts, freeCpuCountHere)
        tna == [t |-> t,
                depth |-> depth,
                currentCpus |-> currentCpusHere,
                freeCpus |-> freeCpusHere,
                currentCpuCount |-> currentCpuCountHere,
                currentCpuCounts |-> currentCpuCountsHere,
                freeCpuCount |-> freeCpuCountHere,
                freeCpuCounts |-> freeCpuCountsHere]
    IN (IF ~FilterAccepts(filter, tna) THEN <<>> ELSE <<tna>>)
       \o toAttributedSliceChildren(nodes[t].children, 1, current, free, filter,
                                    depth + 1, currentCpuCountsHere, freeCpuCountsHere)

\* slip: the children are handed the vectors this node received, without
\* this node's own counts
RECURSIVE toAttributedSliceDropsOwnCounts(_, _, _, _, _, _, _)
toAttributedSliceDropsOwnCounts(t, current, free, filter, depth, currentCpuCounts, freeCpuCounts) ==
    LET currentCpusHere == nodes[t].cpus \cap current
        freeCpusHere == nodes[t].cpus \cap free
        currentCpuCountHere == Cardinality(currentCpusHere)
        currentCpuCountsHere == Append(currentCpuCounts, currentCpuCountHere)
        freeCpuCountHere == Cardinality(freeCpusHere)
        freeCpuCountsHere == Append(freeCpuCounts, freeCpuCountHere)
        tna == [t |-> t,
                depth |-> depth,
                currentCpus |-> currentCpusHere,
                freeCpus |-> freeCpusHere,
                currentCpuCount |-> currentCpuCountHere,
                currentCpuCounts |-> currentCpuCountsHere,
                freeCpuCount |-> freeCpuCountHere,
                freeCpuCounts |-> freeCpuCountsHere]
    IN IF ~FilterAccepts(filter, tna) THEN <<>>
       ELSE <<tna>> \o toAttributedSliceChildren(nodes[t].children, 1, current, free, filter,
                                                 depth + 1, currentCpuCounts, freeCpuCounts)

toAttributedSlice(t, current, free, filter, depth, currentCpuCounts, freeCpuCounts) ==
    LET currentCpusHere == nodes[t].cpus \cap current
        freeCpusHere == nodes[t].cpus \cap free
        currentCpuCountHere == Cardinality(currentCpusHere)
        currentCpuCountsHere == Append(currentCpuCounts, currentCpuCountHere)
        freeCpuCountHere == Cardinality(freeCpusHere)
        freeCpuCountsHere == Append(freeCpuCounts, freeCpuCountHere)
        tna == [t |-> t,
                depth |-> depth,
                currentCpus |-> currentCpusHere,
                freeCpus |-> freeCpusHere,
                currentCpuCount |-> currentCpuCountHere,
                currentCpuCounts |-> currentCpuCountsHere,
                freeCpuCount |-> freeCpuCountHere,
                freeCpuCounts |-> freeCpuCountsHere]
    IN IF ~FilterAccepts(filter, tna) THEN <<>>
       ELSE <<tna>> \o toAttributedSliceChildren(nodes[t].children, 1, current, free, filter,
                                                 depth + 1, currentCpuCountsHere, freeCpuCountsHere)

\* the loop "for _, child := range t.children", from its k-th iteration on
toAttributedSliceChildren(chs, k, current, free, filter, depth, currentCpuCounts, freeCpuCounts) ==
    IF k > Len(chs) THEN <<>>
    ELSE toAttributedSlice(chs[k], current, free, filter, depth, currentCpuCounts, freeCpuCounts)
         \o toAttributedSliceChildren(chs, k + 1, current, free, filter,
                                      depth, currentCpuCounts, freeCpuCounts)

\* t.ToAttributedSlice(currentCpus, freeCpus, filter)
ToAttributedSlice(t, current, free, filter) ==
    toAttributedSlice(t, current, free, filter, 0, <<>>, <<>>)

----------------------------------------------------------------------------
(* Comparators                                                             *)

\* first index at which two equally long count vectors differ, 0 if none
\* (the loops "for tdepth := 0; tdepth < len(...); tdepth += 1")
FirstDiff(a, b) ==
    LET D == {td \in 1..Len(a) : a[td] # b[td]}
    IN IF D = {} THEN 0 ELSE Min(D)

\* slip: the shallower descriptor sorts first
sorterAllocateShallowFirst(alloc, tnas, x, y) ==
    IF tnas[x].depth # tnas[y].depth THEN tnas[x].depth < tnas[y].depth
    ELSE LET c == FirstDiff(tnas[x].currentCpuCounts, tnas[y].currentCpuCounts)
             f == FirstDiff(tnas[x].freeCpuCounts, tnas[y].freeCpuCounts)
         IN IF c # 0 THEN tnas[x].currentCpuCounts[c] > tnas[y].currentCpuCounts[c]
            ELSE IF f # 0
                 THEN IF alloc.topologyBalancing
                      THEN tnas[x].freeCpuCounts[f] > tnas[y].freeCpuCounts[f]
                      ELSE tnas[x].freeCpuCounts[f] < tnas[y].freeCpuCounts[f]
                 ELSE x > y

\* slip: the descriptor with fewer current CPUs sorts first
sorterAllocateFewerCurrentFirst(alloc, tnas, x, y) ==
    IF tnas[x].depth # tnas[y].depth THEN tnas[x].depth > tnas[y].depth
    ELSE LET c == FirstDiff(tnas[x].currentCpuCounts, tnas[y].currentCpuCounts)
             f == FirstDiff(tnas[x].freeCpuCounts, tnas[y].freeCpuCounts)
         IN IF c # 0 THEN tnas[x].currentCpuCounts[c] < tnas[y].currentCpuCounts[c]
            ELSE IF f # 0
                 THEN IF alloc.topologyBalancing
                      THEN tnas[x].freeCpuCounts[f] > tnas[y].freeCpuCounts[f]
                      ELSE tnas[x].freeCpuCounts[f] < tnas[y].freeCpuCounts[f]
                 ELSE x > y

\* slip: both branches of the balancing switch prefer fewer free CPUs
sorterAllocateAlwaysPacks(alloc, tnas, x, y) ==
    IF tnas[x].depth # tnas[y].depth THEN tnas[x].depth > tnas[y].depth
    ELSE LET c == FirstDiff(tnas[x].currentCpuCounts, tnas[y].currentCpuCounts)
             f == FirstDiff(tnas[x].freeCpuCounts, tnas[y].freeCpuCounts)
         IN IF c # 0 THEN tnas[x].currentCpuCounts[c] > tnas[y].currentCpuCounts[c]
            ELSE IF f # 0
                 THEN IF alloc.topologyBalancing
                      THEN tnas[x].freeCpuCounts[f] < tnas[y].freeCpuCounts[f]
                      ELSE tnas[x].freeCpuCounts[f] < tnas[y].freeCpuCounts[f]
                 ELSE x > y

\* slip: both branches of the balancing switch prefer more free CPUs
sorterAllocateAlwaysSpreads(alloc, tnas, x, y) ==
    IF tnas[x].depth # tnas[y].depth THEN tnas[x].depth > tnas[y].depth
    ELSE LET c == FirstDiff(tnas[x].currentCpuCounts, tnas[y].currentCpuCounts)
             f == FirstDiff(tnas[x].freeCpuCounts, tnas[y].freeCpuCounts)
         IN IF c # 0 THEN tnas[x].currentCpuCounts[c] > tnas[y].currentCpuCounts[c]
            ELSE IF f # 0
                 THEN IF alloc.topologyBalancing
                      THEN tnas[x].freeCpuCounts[f] > tnas[y].freeCpuCounts[f]
                      ELSE tnas[x].freeCpuCounts[f] > tnas[y].freeCpuCounts[f]
                 ELSE x > y

\* slip: full ties are not broken by the positions
sorterAllocateNoPositionTieBreak(alloc, tnas, x, y) ==
    IF tnas[x].depth # tnas[y].depth THEN tnas[x].depth > tnas[y].depth
    ELSE LET c == FirstDiff(tnas[x].currentCpuCounts, tnas[y].currentCpuCounts)
             f == FirstDiff(tnas[x].freeCpuCounts, tnas[y].freeCpuCounts)
         IN IF c # 0 THEN tnas[x].currentCpuCounts[c] > tnas[y].currentCpuCounts[c]
            ELSE IF f # 0
                 THEN IF alloc.topologyBalancing
                      THEN tnas[x].freeCpuCounts[f] > tnas[y].freeCpuCounts[f]
                      ELSE tnas[x].freeCpuCounts[f] < tnas[y].freeCpuCounts[f]
                 ELSE FALSE

\* ta.sorterAllocate(tnas)(i, j); x, y are the (1-based) slice positions
sorterAllocate(alloc, tnas, x, y) ==
    IF tnas[x].depth # tnas[y].depth THEN tnas[x].depth > tnas[y].depth
    ELSE LET c == FirstDiff(tnas[x].currentCpuCounts, tnas[y].currentCpuCounts)
             f == FirstDiff(tnas[x].freeCpuCounts, tnas[y].freeCpuCounts)
         IN IF c # 0 THEN tnas[x].currentCpuCounts[c] > tnas[y].currentCpuCounts[c]
            ELSE IF f # 0
                 THEN IF alloc.topologyBalancing
                      THEN tnas[x].freeCpuCounts[f] > tnas[y].freeCpuCounts[f]
                      ELSE tnas[x].freeCpuCounts[f] < tnas[y].freeCpuCounts[f]
                 ELSE x > y

\* slip: with topologyBalancing a release prefers more free CPUs
sorterReleaseBalancingSpreads(alloc, tnas, x, y) ==
    IF tnas[x].depth # tnas[y].depth THEN tnas[x].depth > tnas[y].depth
    ELSE LET c == FirstDiff(tnas[x].currentCpuCounts, tnas[y].currentCpuCounts)
             f == FirstDiff(tnas[x].freeCpuCounts, tnas[y].freeCpuCounts)
         IN IF c # 0 THEN tnas[x].currentCpuCounts[c] < tnas[y].currentCpuCounts[c]
            ELSE IF f # 0
                 THEN IF alloc.topologyBalancing
                      THEN tnas[x].freeCpuCounts[f] > tnas[y].freeCpuCounts[f]
                      ELSE tnas[x].freeCpuCounts[f] < tnas[y].freeCpuCounts[f]
                 ELSE x < y

\* slip: a release does not compare the current counts
sorterReleaseIgnoresCurrentCounts(alloc, tnas, x, y) ==
    IF tnas[x].depth # tnas[y].depth THEN tnas[x].depth > tnas[y].depth
    ELSE LET f == FirstDiff(tnas[x].freeCpuCounts, tnas[y].freeCpuCounts)
         IN IF f # 0
            THEN IF alloc.topologyBalancing
                 THEN tnas[x].freeCpuCounts[f] < tnas[y].freeCpuCounts[f]
                 ELSE tnas[x].freeCpuCounts[f] < tnas[y].freeCpuCounts[f]
            ELSE x < y

\* slip: the descriptor with more current CPUs sorts first
sorterReleaseMoreCurrentFirst(alloc, tnas, x, y) ==
    IF tnas[x].depth # tnas[y].depth THEN tnas[x].depth > tnas[y].depth
    ELSE LET c == FirstDiff(tnas[x].currentCpuCounts, tnas[y].currentCpuCounts)
             f == FirstDiff(tnas[x].freeCpuCounts, tnas[y].freeCpuCounts)
         IN IF c # 0 THEN tnas[x].currentCpuCounts[c] > tnas[y].currentCpuCounts[c]
            ELSE IF f # 0
                 THEN IF alloc.topologyBalancing
                      THEN tnas[x].freeCpuCounts[f] < tnas[y].freeCpuCounts[f]
                      ELSE tnas[x].freeCpuCounts[f] < tnas[y].freeCpuCounts[f]
                 ELSE x < y

\* ta.sorterRelease(tnas)(i, j)
sorterRelease(alloc, tnas, x, y) ==
    IF tnas[x].depth # tnas[y].depth THEN tnas[x].depth > tnas[y].depth
    ELSE LET c == FirstDiff(tnas[x].currentCpuCounts, tnas[y].currentCpuCounts)
             f == FirstDiff(tnas[x].freeCpuCounts, tnas[y].freeCpuCounts)
         IN IF c # 0 THEN tnas[x].currentCpuCounts[c] < tnas[y].currentCpuCounts[c]
            ELSE IF f # 0
                 THEN IF alloc.topologyBalancing
                      THEN tnas[x].freeCpuCounts[f] < tnas[y].freeCpuCounts[f]
                      ELSE tnas[x].freeCpuCounts[f] < tnas[y].freeCpuCounts[f]
                 ELSE x < y

\* the less callback resizeCpus hands to sort.Slice
less(alloc, delta, tnas, x, y) ==
    IF delta > 0 THEN sorterAllocate(alloc, tnas, x, y) ELSE sorterRelease(alloc, tnas, x, y)

\* sort.Slice(tnas, less) followed by tnas[0].  The callbacks compare the
\* descriptors that sit at positions i and j while the sort is running and
\* break full ties by these positions, so among descriptors that tie on
\* depth and on both count vectors the order after the sort depends on the
\* moves the library's (unstable) algorithm makes.  A descriptor a is
\* certain to end before b only if less answers "a before b" wherever the
\* two sit.  NotPreceded is the set of the emission positions of the
\* descriptors that no other descriptor is certain to precede.
NotPreceded(alloc, delta, tnas) ==
    {k \in 1..Len(tnas) :
        \A m \in 1..Len(tnas) :
            m = k \/ ~(/\ less(alloc, delta, <<tnas[m], tnas[k]>>, 1, 2)
                       /\ less(alloc, delta, <<tnas[k], tnas[m]>>, 2, 1))}

\* The library's sort.Slice, as the two algorithms the Go releases ship:
\* quickSort_func (up to Go 1.18) and pdqsort_func (from Go 1.19 on).  ls is
\* the lessSwap pair of the call: ls.alloc and ls.delta select the callback,
\* x is the slice being sorted.  Positions are 0-based as in the library.
Less(ls, x, m, n) == less(ls.alloc, ls.delta, x, m + 1, n + 1)

Swap(x, m, n) == [x EXCEPT ![m + 1] = x[n + 1], ![n + 1] = x[m + 1]]

\* The loops of the library are written as a step, one pass through the loop
\* body, and a run of n steps that is split into two halves: st.done says
\* that the loop has been left, and a step after that changes nothing.  A
\* loop is given at least as many steps as it can make.

\* TRUE.  Reading the slice makes the evaluation compute it, so that the
\* swaps of one half of a run are made before the other half starts.
Computed(x) == Len(x) >= 0

\* the value of k after "for ; k < hi && !stop[k]; k++ {}" entered with k = lo;
\* stop is the loop's test at the positions lo .. hi - 1
ScanUp(lo, hi, stop) ==
    IF lo >= hi THEN lo
    ELSE CHOOSE k \in lo..hi : /\ k = hi \/ stop[k]
                               /\ \A m \in lo..(k - 1) : ~stop[m]

\* the value of k after "for ; k > lo && !stop[k]; k-- {}" entered with k = hi;
\* stop is the loop's test at the positions lo + 1 .. hi
ScanDown(lo, hi, stop) ==
    IF hi <= lo THEN hi
    ELSE hi - (CHOOSE d \in 0..(hi - lo) : /\ hi - d = lo \/ stop[hi - d]
                                           /\ \A e \in 0..(d - 1) : ~stop[hi - e])

\* one pass of "for j := ...; j > low && Less(j, j-1); j-- { Swap(j, j-1) }",
\* st = [x, j, done]
shiftDownStep(ls, st, low) ==
    IF st.done THEN st
    ELSE IF st.j > low /\ Less(ls, st.x, st.j, st.j - 1)
         THEN [x |-> Swap(st.x, st.j, st.j - 1), j |-> st.j - 1, done |-> FALSE]
         ELSE [st EXCEPT !.done = TRUE]

RECURSIVE shiftDownRun(_, _, _, _)
shiftDownRun(ls, st, low, n) ==
    IF st.done \/ n = 0 THEN st
    ELSE IF n = 1 THEN shiftDownStep(ls, st, low)
    ELSE shiftDownRun(ls, shiftDownRun(ls, st, low, n \div 2), low, n - n \div 2)

\* the inner loop of insertionSort_func: "for j := i; j > a && Less(j, j-1); j--"
insertionSortShift(ls, x, a, k) ==
    shiftDownRun(ls, [x |-> x, j |-> k, done |-> FALSE], a, k - a + 1).x

\* the outer loop of insertionSort_func: its passes i = lo .. hi - 1
RECURSIVE insertionSortPasses(_, _, _, _, _)
insertionSortPasses(ls, x, a, lo, hi) ==
    IF ~Computed(x) \/ lo >= hi THEN x
    ELSE IF hi - lo = 1 THEN insertionSortShift(ls, x, a, lo)
    ELSE insertionSortPasses(ls, insertionSortPasses(ls, x, a, lo, (lo + hi) \div 2),
                             a, (lo + hi) \div 2, hi)

insertionSort_func(ls, x, a, b) == insertionSortPasses(ls, x, a, a + 1, b)

\* siftDown_func(data, lo, hi, first), its loop entered with root = lo
RECURSIVE siftDown_func(_, _, _, _, _)
siftDown_func(ls, x, lo, hi, first) ==
    LET child0 == 2 * lo + 1
    IN IF child0 >= hi THEN x
       ELSE LET child == IF child0 + 1 < hi /\ Less(ls, x, first + child0, first + child0 + 1)
                         THEN child0 + 1 ELSE child0
            IN IF ~Less(ls, x, first + lo, first + child) THEN x
               ELSE siftDown_func(ls, Swap(x, first + lo, first + child), child, hi, first)

\* heapSort_func: the passes i = top, top - 1, .., bottom of
\* "for i := (hi - 1) / 2; i >= 0; i--"
RECURSIVE heapSortBuild(_, _, _, _, _, _)
heapSortBuild(ls, x, top, bottom, hi, first) ==
    IF ~Computed(x) \/ top < bottom THEN x
    ELSE IF top = bottom THEN siftDown_func(ls, x, top, hi, first)
    ELSE heapSortBuild(ls, heapSortBuild(ls, x, top, (top + bottom) \div 2 + 1, hi, first),
                       (top + bottom) \div 2, bottom, hi, first)

\* heapSort_func: the passes i = top, top - 1, .., bottom of
\* "for i := hi - 1; i >= 0; i--"
RECURSIVE heapSortPop(_, _, _, _, _)
heapSortPop(ls, x, top, bottom, first) ==
    IF ~Computed(x) \/ top < bottom THEN x
    ELSE IF top = bottom THEN siftDown_func(ls, Swap(x, first, first + top), 0, top, first)
    ELSE heapSortPop(ls, heapSortPop(ls, x, top, (top + bottom) \div 2 + 1, first),
                     (top + bottom) \div 2, bottom, first)

heapSort_func(ls, x, a, b) ==
    LET hi == b - a
    IN heapSortPop(ls, heapSortBuild(ls, x, (hi - 1) \div 2, 0, hi, a), hi - 1, 0, a)

\* ---- Go <= 1.18: quickSort_func

\* "if data.Less(m, n) { data.Swap(m, n) }"
SwapIfLess(ls, x, m, n) == IF Less(ls, x, m, n) THEN Swap(x, m, n) ELSE x

\* medianOfThree_func after its first comparison
medianOfThreeRest(ls, x, m1, m0, m2) ==
    IF Less(ls, x, m2, m1) THEN SwapIfLess(ls, Swap(x, m2, m1), m1, m0) ELSE x

medianOfThree_func(ls, x, m1, m0, m2) ==
    medianOfThreeRest(ls, SwapIfLess(ls, x, m1, m0), m1, m0, m2)

\* doPivot_func: "for ; a < c && Less(a, pivot); a++"
doPivotLower(ls, x, a, c, pivot) == ScanUp(a, c, [k \in a..(c - 1) |-> ~Less(ls, x, k, pivot)])

\* doPivot_func: "for ; b < c && !Less(pivot, b); b++"
doPivotNotGreater(ls, x, b, c, pivot) == ScanUp(b, c, [k \in b..(c - 1) |-> Less(ls, x, pivot, k)])

\* doPivot_func: "for ; b < c && Less(pivot, c-1); c--"
doPivotGreater(ls, x, b, c, pivot) == ScanDown(b, c, [k \in (b + 1)..c |-> ~Less(ls, x, pivot, k - 1)])

\* doPivot_func: one pass of the loop that swaps data[b] with data[c-1]
\* until b >= c, st = [x, b, c, done]
doPivotSplitStep(ls, st, pivot) ==
    IF st.done THEN st
    ELSE LET b1 == doPivotNotGreater(ls, st.x, st.b, st.c, pivot)
             c1 == doPivotGreater(ls, st.x, b1, st.c, pivot)
         IN IF b1 >= c1 THEN [x |-> st.x, b |-> b1, c |-> c1, done |-> TRUE]
            ELSE [x |-> Swap(st.x, b1, c1 - 1), b |-> b1 + 1, c |-> c1 - 1, done |-> FALSE]

RECURSIVE doPivotSplitRun(_, _, _, _)
doPivotSplitRun(ls, st, pivot, n) ==
    IF st.done \/ n = 0 THEN st
    ELSE IF n = 1 THEN doPivotSplitStep(ls, st, pivot)
    ELSE doPivotSplitRun(ls, doPivotSplitRun(ls, st, pivot, n \div 2), pivot, n - n \div 2)

doPivotSplit(ls, x, b, c, pivot) ==
    doPivotSplitRun(ls, [x |-> x, b |-> b, c |-> c, done |-> FALSE], pivot, Len(x) + 1)

\* doPivot_func, protect: "for ; a < b && !Less(b-1, pivot); b--"
doPivotEqualAbove(ls, x, a, b, pivot) == ScanDown(a, b, [k \in (a + 1)..b |-> Less(ls, x, k - 1, pivot)])

\* doPivot_func, protect: one pass of the loop that swaps data[a] with
\* data[b-1] until a >= b, st = [x, a, b, done]
doPivotProtectStep(ls, st, pivot) ==
    IF st.done THEN st
    ELSE LET b1 == doPivotEqualAbove(ls, st.x, st.a, st.b, pivot)
             a1 == doPivotLower(ls, st.x, st.a, b1, pivot)
         IN IF a1 >= b1 THEN [x |-> st.x, a |-> a1, b |-> b1, done |-> TRUE]
            ELSE [x |-> Swap(st.x, a1, b1 - 1), a |-> a1 + 1, b |-> b1 - 1, done |-> FALSE]

RECURSIVE doPivotProtectRun(_, _, _, _)
doPivotProtectRun(ls, st, pivot, n) ==
    IF st.done \/ n = 0 THEN st
    ELSE IF n = 1 THEN doPivotProtectStep(ls, st, pivot)
    ELSE doPivotProtectRun(ls, doPivotProtectRun(ls, st, pivot, n \div 2), pivot, n - n \div 2)

doPivotProtect(ls, x, a, b, pivot) ==
    doPivotProtectRun(ls, [x |-> x, a |-> a, b |-> b, done |-> FALSE], pivot, Len(x) + 1)

\* doPivot_func: "swap(pivot, b-1); return b-1, c", st = [x, b, ..]
doPivotEnd(st, c, pivot) ==
    [x |-> Swap(st.x, pivot, st.b - 1), midlo |-> st.b - 1, midhi |-> c]

\* doPivot_func: the three tests for duplicates of the pivot,
\* st = [x, b, c, dups]
doPivotDupAbove(ls, st, pivot, hi) ==
    IF ~Less(ls, st.x, pivot, hi - 1)
    THEN [x |-> Swap(st.x, st.c, hi - 1), b |-> st.b, c |-> st.c + 1, dups |-> st.dups + 1]
    ELSE st

doPivotDupBelow(ls, st, pivot) ==
    IF ~Less(ls, st.x, st.b - 1, pivot)
    THEN [x |-> st.x, b |-> st.b - 1, c |-> st.c, dups |-> st.dups + 1]
    ELSE st

doPivotDupMiddle(ls, st, pivot, m) ==
    IF ~Less(ls, st.x, m, pivot)
    THEN [x |-> Swap(st.x, m, st.b - 1), b |-> st.b - 1, c |-> st.c, dups |-> st.dups + 1]
    ELSE st

\* doPivot_func: "protect = dups > 1" and what follows, st = [x, b, c, dups]
doPivotAfterDups(ls, st, a, pivot) ==
    IF st.dups > 1
    THEN doPivotEnd(doPivotProtect(ls, st.x, a, st.b, pivot), st.c, pivot)
    ELSE doPivotEnd(st, st.c, pivot)

\* doPivot_func after the loop that splits data[a:c], st = [x, b, c, done];
\* "if !protect && hi-c < (hi-lo)/4" lets the pivot's duplicates be found
doPivotAfterSplit(ls, st, lo, hi, a, m) ==
    IF hi - st.c < 5
    THEN doPivotEnd(doPivotProtect(ls, st.x, a, st.b, lo), st.c, lo)
    ELSE IF hi - st.c < (hi - lo) \div 4
         THEN doPivotAfterDups(ls,
                  doPivotDupMiddle(ls,
                      doPivotDupBelow(ls,
                          doPivotDupAbove(ls, [x |-> st.x, b |-> st.b, c |-> st.c, dups |-> 0], lo, hi),
                          lo),
                      lo, m),
                  a, lo)
         ELSE doPivotEnd(st, st.c, lo)

\* doPivot_func from "for ; a < c && less(a, pivot); a++" on, a its result
doPivotFrom(ls, x, lo, hi, a, m) ==
    doPivotAfterSplit(ls, doPivotSplit(ls, x, a, hi - 1, lo), lo, hi, a, m)

\* doPivot_func after the median has been moved to data[lo], the pivot
doPivotMedianFirst(ls, x, lo, hi, m) ==
    doPivotFrom(ls, x, lo, hi, doPivotLower(ls, x, lo + 1, hi - 1, lo), m)

\* doPivot_func: Tukey's ninther for more than 40 elements
doPivotNinther(ls, x, lo, hi, m, s) ==
    IF hi - lo > 40
    THEN medianOfThree_func(ls,
             medianOfThree_func(ls,
                 medianOfThree_func(ls, x, lo, lo + s, lo + 2 * s),
                 m, m - s, m + s),
             hi - 1, hi - 1 - s, hi - 1 - 2 * s)
    ELSE x

\* doPivot_func(data, lo, hi): [x, midlo, midhi]
doPivot_func(ls, x, lo, hi) ==
    doPivotMedianFirst(ls,
        medianOfThree_func(ls, doPivotNinther(ls, x, lo, hi, (lo + hi) \div 2, (hi - lo) \div 8),
                           lo, (lo + hi) \div 2, hi - 1),
        lo, hi, (lo + hi) \div 2)

\* quickSort_func, small slice: "for i := a + 6; i < b; i++" from i = k on
RECURSIVE quickSortShellPass(_, _, _, _)
quickSortShellPass(ls, x, k, b) ==
    IF k < b
    THEN quickSortShellPass(ls, IF Less(ls, x, k, k - 6) THEN Swap(x, k, k - 6) ELSE x, k + 1, b)
    ELSE x

RECURSIVE quickSort_func(_, _, _, _, _)
\* quickSort_func after doPivot_func: the smaller part is sorted by the
\* recursive call, the larger one by the next pass of the loop
quickSortParts(ls, p, a, b, depth) ==
    IF p.midlo - a < b - p.midhi
    THEN quickSort_func(ls, quickSort_func(ls, p.x, a, p.midlo, depth), p.midhi, b, depth)
    ELSE quickSort_func(ls, quickSort_func(ls, p.x, p.midhi, b, depth), a, p.midlo, depth)

quickSort_func(ls, x, a, b, depth) ==
    IF Computed(x) /\ b - a > 12
    THEN IF depth = 0 THEN heapSort_func(ls, x, a, b)
         ELSE quickSortParts(ls, doPivot_func(ls, x, a, b), a, b, depth - 1)
    ELSE IF b - a > 1
         THEN insertionSort_func(ls, quickSortShellPass(ls, x, a + 6, b), a, b)
         ELSE x

\* bits.Len(n): the number of bits of n
RECURSIVE bitsLen(_)
bitsLen(n) == IF n = 0 THEN 0 ELSE 1 + bitsLen(n \div 2)

\* maxDepth(n) of Go <= 1.18: 2*ceil(lg(n+1))
maxDepth(n) == 2 * bitsLen(n)

\* ---- Go >= 1.19: pdqsort_func

\* a uint64 as its 64 bits, bit 0 the lowest
Uint64(n) == [k \in 0..63 |-> IF k < 31 THEN (n \div 2^k) % 2 ELSE 0]
Shl(r, s) == [k \in 0..63 |-> IF k >= s THEN r[k - s] ELSE 0]
Shr(r, s) == [k \in 0..63 |-> IF k + s <= 63 THEN r[k + s] ELSE 0]
Xor(r, q) == [k \in 0..63 |-> (r[k] + q[k]) % 2]
\* uint(r) & (2^bits - 1)
RECURSIVE LowBits(_, _)
LowBits(r, bits) == IF bits = 0 THEN 0 ELSE r[0] + 2 * LowBits(Shr(r, 1), bits - 1)

\* (r *xorshift) Next() of Go 1.19: "*r ^= *r << 13; *r ^= *r >> 17; *r ^= *r << 5"
xorshiftNext(r) ==
    LET r1 == Xor(r, Shl(r, 13))
        r2 == Xor(r1, Shr(r1, 17))
    IN Xor(r2, Shl(r2, 5))

\* (r *xorshift) Next() in a library that shifts by the triple the xorshift
\* paper gives for 64 bits: "*r ^= *r << 13; *r ^= *r >> 7; *r ^= *r << 17"
xorshiftNext64(r) ==
    LET r1 == Xor(r, Shl(r, 13))
        r2 == Xor(r1, Shr(r1, 7))
    IN Xor(r2, Shl(r2, 17))

\* random.Next() of the build
randomNext(r) == IF ties = "pdqsort64" THEN xorshiftNext64(r) ELSE xorshiftNext(r)

breakPatterns_func(x, a, b) ==
    LET length == b - a
        r1 == randomNext(Uint64(length))
        r2 == randomNext(r1)
        r3 == randomNext(r2)
        idx == a + (length \div 4) * 2 - 1
        other(r) == LET o == LowBits(r, bitsLen(length))
                    IN IF o >= length THEN o - length ELSE o
    IN IF length >= 8
       THEN Swap(Swap(Swap(x, idx - 1, a + other(r1)), idx, a + other(r2)), idx + 1, a + other(r3))
       ELSE x

\* order2_func(data, a, b, swaps): [a, b] and the number added to *swaps
order2_func(ls, x, a, b) ==
    IF Less(ls, x, b, a) THEN [a |-> b, b |-> a, swaps |-> 1]
    ELSE [a |-> a, b |-> b, swaps |-> 0]

\* median_func from "a, b = order2_func(data, a, b, swaps)" on, o1 and o2 the
\* calls before it
medianThird(ls, x, o1, o2) ==
    LET o3 == order2_func(ls, x, o1.a, o2.a)
    IN [m |-> o3.b, swaps |-> o1.swaps + o2.swaps + o3.swaps]

\* median_func from "b, c = order2_func(data, b, c, swaps)" on, o1 the call
\* before it
medianSecond(ls, x, o1, c) == medianThird(ls, x, o1, order2_func(ls, x, o1.b, c))

\* median_func(data, a, b, c, swaps): the median and the number added to *swaps
median_func(ls, x, a, b, c) ==
    medianSecond(ls, x, order2_func(ls, x, a, b), c)

medianAdjacent_func(ls, x, a) == median_func(ls, x, a - 1, a, a + 1)

\* choosePivot_func from "if swaps == 0" on: mi, mj, mk and mm are the medians
\* taken, each with the number it added to swaps
choosePivotHint(mi, mj, mk, mm) ==
    LET swaps == mi.swaps + mj.swaps + mk.swaps + mm.swaps
    IN [pivot |-> mm.m,
        hint |-> CASE swaps = 0 -> "increasing"
                   [] swaps = 12 -> "decreasing"
                   [] OTHER -> "unknown"]

\* choosePivot_func from "j = median_func(data, i, j, k, &swaps)" on
choosePivotMedian(ls, x, l, j0, mi, mj, mk) ==
    choosePivotHint(mi, mj, mk,
                    IF l >= 8 THEN median_func(ls, x, mi.m, mj.m, mk.m)
                    ELSE [m |-> j0, swaps |-> 0])

\* choosePivot_func from "if l >= 8" on, with i, j, k as first computed
choosePivotFrom(ls, x, l, i0, j0, k0) ==
    choosePivotMedian(ls, x, l, j0,
                      IF l >= 50 THEN medianAdjacent_func(ls, x, i0) ELSE [m |-> i0, swaps |-> 0],
                      IF l >= 50 THEN medianAdjacent_func(ls, x, j0) ELSE [m |-> j0, swaps |-> 0],
                      IF l >= 50 THEN medianAdjacent_func(ls, x, k0) ELSE [m |-> k0, swaps |-> 0])

\* choosePivot_func(data, a, b): [pivot, hint]
choosePivot_func(ls, x, a, b) ==
    choosePivotFrom(ls, x, b - a, a + ((b - a) \div 4) * 1, a + ((b - a) \div 4) * 2,
                    a + ((b - a) \div 4) * 3)

\* reverseRange_func(data, a, b): the swaps of (i, j) = (a, b-1), (a+1, b-2), ...
\* leave data[a:b] reversed
reverseRange_func(x, a, b) ==
    [k \in 1..Len(x) |-> IF a < k /\ k <= b THEN x[a + b + 1 - k] ELSE x[k]]

\* partialInsertionSort_func: "for i < b && !Less(i, i-1) { i++ }"
partialInsertionSortSkip(ls, x, k, b) == ScanUp(k, b, [m \in k..(b - 1) |-> Less(ls, x, m, m - 1)])

\* partialInsertionSort_func: "for j := i - 1; j >= 1; j--", which swaps
\* data[j] with data[j-1] until Less(j, j-1) fails
partialInsertionSortLeft(ls, x, j) ==
    shiftDownRun(ls, [x |-> x, j |-> j, done |-> FALSE], 0, j + 1).x

\* partialInsertionSort_func: one pass of "for j := i + 1; j < b; j++", which
\* swaps data[j] with data[j-1] until Less(j, j-1) fails, st = [x, j, done]
shiftUpStep(ls, st, b) ==
    IF st.done THEN st
    ELSE IF st.j < b /\ Less(ls, st.x, st.j, st.j - 1)
         THEN [x |-> Swap(st.x, st.j, st.j - 1), j |-> st.j + 1, done |-> FALSE]
         ELSE [st EXCEPT !.done = TRUE]

RECURSIVE shiftUpRun(_, _, _, _)
shiftUpRun(ls, st, b, n) ==
    IF st.done \/ n = 0 THEN st
    ELSE IF n = 1 THEN shiftUpStep(ls, st, b)
    ELSE shiftUpRun(ls, shiftUpRun(ls, st, b, n \div 2), b, n - n \div 2)

partialInsertionSortRight(ls, x, j, b) ==
    shiftUpRun(ls, [x |-> x, j |-> j, done |-> FALSE], b, Len(x) + 1).x

\* partialInsertionSort_func: "for j := 0; j < maxSteps; j++" from (i, j) = (k, step) on
RECURSIVE partialInsertionSortSteps(_, _, _, _, _, _)
partialInsertionSortSteps(ls, x, a, b, k, step) ==
    IF step >= 5 THEN [x |-> x, sorted |-> FALSE]
    ELSE LET k1 == partialInsertionSortSkip(ls, x, k, b)
         IN IF k1 = b THEN [x |-> x, sorted |-> TRUE]
            ELSE IF b - a < 50 THEN [x |-> x, sorted |-> FALSE]
            ELSE LET x1 == Swap(x, k1, k1 - 1)
                     x2 == IF k1 - a >= 2 THEN partialInsertionSortLeft(ls, x1, k1 - 1) ELSE x1
                     x3 == IF b - k1 >= 2 THEN partialInsertionSortRight(ls, x2, k1 + 1, b) ELSE x2
                 IN partialInsertionSortSteps(ls, x3, a, b, k1, step + 1)

partialInsertionSort_func(ls, x, a, b) == partialInsertionSortSteps(ls, x, a, b, a + 1, 0)

\* partitionEqual_func: "for i <= j && !Less(a, i) { i++ }"
partitionEqualUp(ls, x, a, m, n) == ScanUp(m, n + 1, [k \in m..n |-> Less(ls, x, a, k)])

\* partitionEqual_func: "for i <= j && Less(a, j) { j-- }"
partitionEqualDown(ls, x, a, m, n) == ScanDown(m - 1, n, [k \in m..n |-> ~Less(ls, x, a, k)])

\* partitionEqual_func: one pass of its loop, st = [x, i, j, done]
partitionEqualStep(ls, st, a) ==
    IF st.done THEN st
    ELSE LET m1 == partitionEqualUp(ls, st.x, a, st.i, st.j)
             n1 == partitionEqualDown(ls, st.x, a, m1, st.j)
         IN IF m1 > n1 THEN [x |-> st.x, i |-> m1, j |-> n1, done |-> TRUE]
            ELSE [x |-> Swap(st.x, m1, n1), i |-> m1 + 1, j |-> n1 - 1, done |-> FALSE]

RECURSIVE partitionEqualRun(_, _, _, _)
partitionEqualRun(ls, st, a, n) ==
    IF st.done \/ n = 0 THEN st
    ELSE IF n = 1 THEN partitionEqualStep(ls, st, a)
    ELSE partitionEqualRun(ls, partitionEqualRun(ls, st, a, n \div 2), a, n - n \div 2)

partitionEqualLoop(ls, x, a, m, n) ==
    LET st == partitionEqualRun(ls, [x |-> x, i |-> m, j |-> n, done |-> FALSE], a, Len(x) + 1)
    IN [x |-> st.x, mid |-> st.i]

partitionEqual_func(ls, x, a, b, pivot) == partitionEqualLoop(ls, Swap(x, a, pivot), a, a + 1, b - 1)

\* partition_func: "for i <= j && Less(i, a) { i++ }"
partitionUp(ls, x, a, m, n) == ScanUp(m, n + 1, [k \in m..n |-> ~Less(ls, x, k, a)])

\* partition_func: "for i <= j && !Less(j, a) { j-- }"
partitionDown(ls, x, a, m, n) == ScanDown(m - 1, n, [k \in m..n |-> Less(ls, x, k, a)])

\* partition_func: one pass of the loop after the first swap, st = [x, i, j, done]
partitionStep(ls, st, a) ==
    IF st.done THEN st
    ELSE LET m1 == partitionUp(ls, st.x, a, st.i, st.j)
             n1 == partitionDown(ls, st.x, a, m1, st.j)
         IN IF m1 > n1 THEN [x |-> st.x, i |-> m1, j |-> n1, done |-> TRUE]
            ELSE [x |-> Swap(st.x, m1, n1), i |-> m1 + 1, j |-> n1 - 1, done |-> FALSE]

RECURSIVE partitionRun(_, _, _, _)
partitionRun(ls, st, a, n) ==
    IF st.done \/ n = 0 THEN st
    ELSE IF n = 1 THEN partitionStep(ls, st, a)
    ELSE partitionRun(ls, partitionRun(ls, st, a, n \div 2), a, n - n \div 2)

partitionLoop(ls, x, a, m, n) ==
    LET st == partitionRun(ls, [x |-> x, i |-> m, j |-> n, done |-> FALSE], a, Len(x) + 1)
    IN [x |-> Swap(st.x, st.j, a), mid |-> st.j, alreadyPartitioned |-> FALSE]

partition_func(ls, x, a, b, pivot) ==
    LET x1 == Swap(x, a, pivot)
        m1 == partitionUp(ls, x1, a, a + 1, b - 1)
        n1 == partitionDown(ls, x1, a, m1, b - 1)
    IN IF m1 > n1 THEN [x |-> Swap(x1, n1, a), mid |-> n1, alreadyPartitioned |-> TRUE]
       ELSE partitionLoop(ls, Swap(x1, m1, n1), a, m1 + 1, n1 - 1)

RECURSIVE pdqsortLoop(_, _, _, _, _, _, _)
\* pdqsort_func after partition_func, p = [x, mid, alreadyPartitioned]: the
\* smaller part is sorted by the recursive call, the larger one by the next
\* pass of the loop
pdqsortParts(ls, p, a, b, limit) ==
    IF p.mid - a < b - p.mid
    THEN pdqsortLoop(ls, pdqsortLoop(ls, p.x, a, p.mid, limit, TRUE, TRUE),
                     p.mid + 1, b, limit, p.mid - a >= (b - a) \div 8, p.alreadyPartitioned)
    ELSE pdqsortLoop(ls, pdqsortLoop(ls, p.x, p.mid + 1, b, limit, TRUE, TRUE),
                     a, p.mid, limit, b - p.mid >= (b - a) \div 8, p.alreadyPartitioned)

\* pdqsort_func after partitionEqual_func, eq = [x, mid]: "a = mid; continue"
pdqsortEqual(ls, eq, b, limit, wasBalanced, wasPartitioned) ==
    pdqsortLoop(ls, eq.x, eq.mid, b, limit, wasBalanced, wasPartitioned)

\* pdqsort_func from "if a > 0 && !less(data[a-1], data[pivot])" on
pdqsortPartition(ls, x, a, b, limit, wasBalanced, wasPartitioned, pivot) ==
    IF a > 0 /\ ~Less(ls, x, a - 1, pivot)
    THEN pdqsortEqual(ls, partitionEqual_func(ls, x, a, b, pivot), b, limit,
                      wasBalanced, wasPartitioned)
    ELSE pdqsortParts(ls, partition_func(ls, x, a, b, pivot), a, b, limit)

\* pdqsort_func after "if partialInsertionSort_func(data, a, b) { return }",
\* tried = [x, sorted]; sorted is FALSE where the call is not made
pdqsortTried(ls, tried, a, b, limit, wasBalanced, wasPartitioned, pivot) ==
    IF tried.sorted THEN tried.x
    ELSE pdqsortPartition(ls, tried.x, a, b, limit, wasBalanced, wasPartitioned, pivot)

\* pdqsort_func from "if wasBalanced && wasPartitioned && hint == increasingHint" on
pdqsortHinted(ls, x, a, b, limit, wasBalanced, wasPartitioned, pivot, hint) ==
    pdqsortTried(ls,
                 IF wasBalanced /\ wasPartitioned /\ hint = "increasing"
                 THEN partialInsertionSort_func(ls, x, a, b)
                 ELSE [x |-> x, sorted |-> FALSE],
                 a, b, limit, wasBalanced, wasPartitioned, pivot)

\* pdqsort_func after choosePivot_func, chosen = [pivot, hint]
pdqsortChosen(ls, x, a, b, limit, wasBalanced, wasPartitioned, chosen) ==
    pdqsortHinted(ls, IF chosen.hint = "decreasing" THEN reverseRange_func(x, a, b) ELSE x,
                  a, b, limit, wasBalanced, wasPartitioned,
                  IF chosen.hint = "decreasing" THEN (b - 1) - (chosen.pivot - a)
                  ELSE chosen.pivot,
                  IF chosen.hint = "decreasing" THEN "increasing" ELSE chosen.hint)

\* pdqsort_func from "pivot, hint := choosePivot_func(data, a, b)" on
pdqsortChoose(ls, x, a, b, limit, wasBalanced, wasPartitioned) ==
    pdqsortChosen(ls, x, a, b, limit, wasBalanced, wasPartitioned, choosePivot_func(ls, x, a, b))

\* pdqsort_func(data, a, b, limit), its loop entered with the two flags given
pdqsortLoop(ls, x, a, b, limit, wasBalanced, wasPartitioned) ==
    IF ~Computed(x) \/ b - a <= 12 THEN insertionSort_func(ls, x, a, b)
    ELSE IF limit = 0 THEN heapSort_func(ls, x, a, b)
    ELSE pdqsortChoose(ls, IF wasBalanced THEN x ELSE breakPatterns_func(x, a, b), a, b,
                       IF wasBalanced THEN limit ELSE limit - 1,
                       wasBalanced, wasPartitioned)

pdqsort_func(ls, x, a, b, limit) == pdqsortLoop(ls, x, a, b, limit, TRUE, TRUE)

\* The sort.Slice a build links: ties is
\*   "quickSort"    Go <= 1.18,
\*   "pdqsort"      Go >= 1.19, the xorshift of breakPatterns_func shifting by
\*                  13, 17 and 5 as in Go 1.19,
\*   "pdqsort64"    Go >= 1.19, the xorshift shifting by 13, 7 and 17,
\*   "unspecified"  any algorithm: every order of the descriptors that the
\*                  callbacks do not tell apart.
LibrarySorts == {"quickSort", "pdqsort", "pdqsort64"}

TieOrders == LibrarySorts \cup {"unspecified"}

\* sort.Slice(x, less) of the build
Slice(ls, x) ==
    CASE ties = "quickSort" -> quickSort_func(ls, x, 0, Len(x), maxDepth(Len(x)))
      [] ties \in {"pdqsort", "pdqsort64"} -> pdqsort_func(ls, x, 0, Len(x), bitsLen(Len(x)))

\* the descriptors that can be tnas[0] after sort.Slice(tnas, less)
SortedFirst(alloc, delta, tnas) ==
    IF ties = "unspecified"
    THEN {tnas[k] : k \in NotPreceded(alloc, delta, tnas)}
    ELSE {Slice([alloc |-> alloc, delta |-> delta], tnas)[1]}

----------------------------------------------------------------------------
(* Resize decision                                                         *)

\* slip: a successful call returns all CPUs of the chosen node
resizeCpusReturnsNodeCpus(alloc, current, free, delta) ==
    LET tnas == ToAttributedSlice(alloc.root, current, free, [kind |-> "resize", delta |-> delta])
    IN IF Len(tnas) = 0
       THEN {[addFrom |-> free, removeFrom |-> current, err |-> ErrNotEnoughFree]}
       ELSE {[addFrom |-> nodes[tna.t].cpus, removeFrom |-> nodes[tna.t].cpus, err |-> ErrNil] :
                tna \in SortedFirst(alloc, delta, tnas)}

\* ta.resizeCpus(currentCpus, freeCpus, delta): the set of the possible
\* return values [addFrom, removeFrom, err]
resizeCpus(alloc, current, free, delta) ==
    LET tnas == ToAttributedSlice(alloc.root, current, free, [kind |-> "resize", delta |-> delta])
    IN IF Len(tnas) = 0
       THEN {[addFrom |-> free, removeFrom |-> current, err |-> ErrNotEnoughFree]}
       ELSE {[addFrom |-> tna.freeCpus, removeFrom |-> tna.currentCpus, err |-> ErrNil] :
                tna \in SortedFirst(alloc, delta, tnas)}

\* slip: the loop forgets to take the released CPU out of currentCpus
RECURSIVE ResizeCpusLoopKeepsCurrent(_, _, _, _, _, _)
ResizeCpusLoopKeepsCurrent(alloc, n, removeFrom, current, free, delta) ==
    IF ~(n < -delta)
    THEN {[addFrom |-> {}, removeFrom |-> removeFrom, err |-> ErrNil]}
    ELSE UNION {
        LET removeSingleFrom == r.removeFrom
        IN IF r.err # ErrNil
           THEN {[addFrom |-> {}, removeFrom |-> removeFrom, err |-> r.err]}
           ELSE IF Cardinality(removeSingleFrom) # 1
           THEN {[addFrom |-> {}, removeFrom |-> removeFrom, err |-> ErrNoSingleCpu]}
           ELSE IF Cardinality(removeFrom \cup removeSingleFrom) # n + 1
           THEN {[addFrom |-> {}, removeFrom |-> removeFrom, err |-> ErrDoubleRelease]}
           ELSE ResizeCpusLoopKeepsCurrent(alloc, n + 1,
                                           removeFrom \cup removeSingleFrom,
                                           current,
                                           free \cup removeSingleFrom,
                                           delta)
        : r \in resizeCpus(alloc, current, free, -1)}

\* slip: when a step fails the loop returns what the step returned
RECURSIVE ResizeCpusLoopReturnsFailedStep(_, _, _, _, _, _)
ResizeCpusLoopReturnsFailedStep(alloc, n, removeFrom, current, free, delta) ==
    IF ~(n < -delta)
    THEN {[addFrom |-> {}, removeFrom |-> removeFrom, err |-> ErrNil]}
    ELSE UNION {
        LET removeSingleFrom == r.removeFrom
        IN IF r.err # ErrNil
           THEN {r}
           ELSE IF Cardinality(removeSingleFrom) # 1
           THEN {[addFrom |-> {}, removeFrom |-> removeFrom, err |-> ErrNoSingleCpu]}
           ELSE IF Cardinality(removeFrom \cup removeSingleFrom) # n + 1
           THEN {[addFrom |-> {}, removeFrom |-> removeFrom, err |-> ErrDoubleRelease]}
           ELSE ResizeCpusLoopReturnsFailedStep(alloc, n + 1,
                                                removeFrom \cup removeSingleFrom,
                                                current \ removeSingleFrom,
                                                free \cup removeSingleFrom,
                                                delta)
        : r \in resizeCpus(alloc, current, free, -1)}

\* the loop "for n := 0; n < -delta; n++" of ResizeCpus from iteration n on,
\* with the loop's variables removeFrom, currentCpus, freeCpus
RECURSIVE ResizeCpusLoop(_, _, _, _, _, _)
ResizeCpusLoop(alloc, n, removeFrom, current, free, delta) ==
    IF ~(n < -delta)
    THEN {[addFrom |-> {}, removeFrom |-> removeFrom, err |-> ErrNil]}
    ELSE UNION {
        LET removeSingleFrom == r.removeFrom
        IN IF r.err # ErrNil
           THEN {[addFrom |-> {}, removeFrom |-> removeFrom, err |-> r.err]}
           ELSE IF Cardinality(removeSingleFrom) # 1
           THEN {[addFrom |-> {}, removeFrom |-> removeFrom, err |-> ErrNoSingleCpu]}
           ELSE IF Cardinality(removeFrom \cup removeSingleFrom) # n + 1
           THEN {[addFrom |-> {}, removeFrom |-> removeFrom, err |-> ErrDoubleRelease]}
           ELSE ResizeCpusLoop(alloc, n + 1,
                               removeFrom \cup removeSingleFrom,
                               current \ removeSingleFrom,
                               free \cup removeSingleFrom,
                               delta)
        : r \in resizeCpus(alloc, current, free, -1)}

\* slip: ">= 0" for "> 0" sends a zero delta to resizeCpus
ResizeCpusZeroGrows(alloc, current, free, delta) ==
    IF delta >= 0 THEN resizeCpus(alloc, current, free, delta)
    ELSE ResizeCpusLoop(alloc, 0, {}, current, free, delta)

\* slip: a release asks the tree once for the whole delta
ResizeCpusReleasesAtOnce(alloc, current, free, delta) ==
    IF delta > 0 THEN resizeCpus(alloc, current, free, delta)
    ELSE IF delta = 0 THEN {[addFrom |-> {}, removeFrom |-> {}, err |-> ErrNil]}
    ELSE {[addFrom |-> {}, removeFrom |-> r.removeFrom, err |-> r.err] :
             r \in resizeCpus(alloc, current, free, delta)}

\* ta.ResizeCpus(currentCpus, freeCpus, delta): the set of the possible
\* return values [addFrom, removeFrom, err]
ResizeCpus(alloc, current, free, delta) ==
    IF delta > 0 THEN resizeCpus(alloc, current, free, delta)
    ELSE ResizeCpusLoop(alloc, 0, {}, current, free, delta)

----------------------------------------------------------------------------
(* The driver TestResizeCpus and its table of cases                        *)

\* a Go map lookup: a missing key yields the zero value (the empty CPU set)
Lookup(m, k) == IF k \in DOMAIN m THEN m[k] ELSE {}

NoCase == [topology |-> <<2, 2, 2, 2, 2>>, allocatorTB |-> FALSE, allocations |-> {},
           deltas |-> <<>>, allocate |-> FALSE, operateOnCcid |-> <<>>,
           expectCurrentOnSame |-> <<>>, expectAllOnSame |-> <<>>, expectCurrentNotOn |-> <<>>,
           expectAddSizes |-> <<>>, expectDisjoint |-> <<>>, expectErrors |-> <<>>]

\* tcases.  A name in expectCurrentNotOn is written as the sequence of the
\* numbers printed into it ("p0d1" is <<0, 1>>, "" is <<>>), see NameOf.
TestCases ==
    [first |-> [NoCase EXCEPT !.deltas = <<0, 1, 2, 3, 4, 5, 7, 8, 9, 15, 16, 17, 31, 32>>,
                              !.expectAddSizes = <<0, 1, 2, 4, 4, 8, 8, 8, 16, 16, 16, 32, 32, 32>>],
     toolarge |-> [NoCase EXCEPT !.deltas = <<33>>,
                                 !.expectErrors = <<"not enough free CPUs">>],
     spread |-> [NoCase EXCEPT !.allocatorTB = TRUE,
                               !.deltas = <<1, 1, 1, 1, 1, 1, 1, 1>>,
                               !.allocate = TRUE,
                               !.operateOnCcid = <<1, 2, 3, 4, 5, 6, 7, 8>>,
                               !.expectDisjoint =
                                   <<[topo |-> "", ccids |-> <<>>],
                                     [topo |-> "package", ccids |-> <<1, 2>>],
                                     [topo |-> "die", ccids |-> <<1, 2, 3>>],
                                     [topo |-> "die", ccids |-> <<1, 2, 3, 4>>],
                                     [topo |-> "numa", ccids |-> <<1, 2, 3, 4, 5>>],
                                     [topo |-> "numa", ccids |-> <<1, 2, 3, 4, 5, 6>>],
                                     [topo |-> "numa", ccids |-> <<1, 2, 3, 4, 5, 6, 7>>],
                                     [topo |-> "numa", ccids |-> <<1, 2, 3, 4, 5, 6, 7, 8>>]>>],
     pack |-> [NoCase EXCEPT !.deltas = <<1, 1, 1, 1>>,
                             !.allocate = TRUE,
                             !.operateOnCcid = <<1, 2, 3, 4, 5>>,
                             !.expectAllOnSame = <<"", "core", "numa", "numa", "die", "die">>],
     inflate |-> [NoCase EXCEPT !.deltas = <<1, 1, 1, 1, 1, 3, 6, 1, 1>>,
                                !.allocate = TRUE,
                                !.operateOnCcid = <<1, 1, 1, 1, 1, 1, 1, 1, 1>>,
                                !.expectCurrentOnSame =
                                    <<"core", "core", "numa", "numa", "die", "die",
                                      "package", "package", "package">>,
                                !.expectAddSizes = <<1, 1, 1, 1, 1, 3, 8, 1, 1>>],
     defrag1 |-> [NoCase EXCEPT !.allocations = {0, 2, 3, 7, 10, 17, 18},
                                !.deltas = <<-1, -1, -1, -1, -1, -1, -1>>,
                                !.allocate = TRUE,
                                !.operateOnCcid = <<1, 1, 1, 1, 1, 1, 1>>,
                                !.expectCurrentOnSame =
                                    <<"", "package", "die", "numa", "core", "core", "core">>,
                                !.expectCurrentNotOn =
                                    <<<<>>, <<1>>, <<0, 1>>, <<0, 0, 1>>, <<0, 0, 0, 0>>>>],
     defrag2 |-> [NoCase EXCEPT !.allocations = {0, 2, 4, 6, 8, 9, 10, 24, 25, 26, 27, 28, 29, 30, 31},
                                !.deltas = <<-2, -1, -5, -3>>,
                                !.allocate = TRUE,
                                !.operateOnCcid = <<1, 1, 1, 1>>,
                                !.expectCurrentOnSame = <<"", "", "die", "numa">>,
                                !.expectCurrentNotOn = <<<<>>, <<0, 1>>, <<0>>, <<>>>>],
     gentle |-> [NoCase EXCEPT !.topology = <<2, 1, 1, 16, 2>>,
                               !.deltas = <<4, 4, 14, 7, 7, 4, 4, 14,
                                            -2, -2, -2, -2,
                                            -1, 1, -1, 1, -1, 1, -1, 1>>,
                               !.allocate = TRUE,
                               !.operateOnCcid = <<1, 2, 3, 4, 5, 6, 7, 8,
                                                   1, 2, 3, 4,
                                                   8, 8, 8, 8, 8, 8, 8, 8>>,
                               !.expectCurrentOnSame =
                                   <<"package", "package", "package", "package",
                                     "package", "package", "package", "",
                                     "", "", "", "",
                                     "", "", "", "", "", "", "package", "package">>,
                               !.expectCurrentNotOn = <<<<>>, <<0, 1>>, <<0>>, <<>>>>]]

TestNames == DOMAIN TestCases

\* tcases of the earlier revision of TestResizeCpus kept in the same file
\* (it has no ccids: one currentCpus is carried from delta to delta)
EarlierTestCases ==
    [earlier_defrag1 |-> [topology |-> <<2, 2, 2, 2, 2>>,
                          allocations |-> {0, 2, 3, 7, 10, 17, 18},
                          deltas |-> <<-1, -1, -1, -1, -1, -1, -1>>,
                          allocate |-> TRUE],
     earlier_defrag2 |-> [topology |-> <<2, 2, 2, 2, 2>>,
                          allocations |-> {0, 2, 4, 6, 8, 9, 10, 24, 25, 26, 27, 28, 29, 30, 31},
                          deltas |-> <<-2, -1, -5, -3>>,
                          allocate |-> TRUE]]

EarlierTestNames == DOMAIN EarlierTestCases

\* the trees (and csit maps) newCpuTreeFromInt5 builds for the topologies in use
Topologies ==
    {TestCases[n].topology : n \in TestNames} \cup {EarlierTestCases[n].topology : n \in EarlierTestNames}
BuiltTrees == [pdnct \in Topologies |-> newCpuTreeFromInt5(pdnct)]

\* topology of the running case or scenario
Topology ==
    IF tc \in TestNames THEN TestCases[tc].topology ELSE EarlierTestCases[tc].topology

\* csit of the running case: cpuID -> <<package, die, numa, core, thread>>,
\* each element named by its tree node
csit == BuiltTrees[Topology].csit

\* positions of the topology levels in a csit entry (cpuInTopology.TopoName)
TopoName(cit, topoLevel) ==
    CASE topoLevel = "package" -> cit[1]
      [] topoLevel = "die" -> cit[2]
      [] topoLevel = "numa" -> cit[3]
      [] topoLevel = "core" -> cit[4]
      [] topoLevel = "thread" -> cit[5]

\* verifySame reports no error: all CPUs of cpus lie on one element of the level
verifySame(topoLevel, cpus) ==
    \A a, b \in cpus : TopoName(csit[a], topoLevel) = TopoName(csit[b], topoLevel)

\* the name newCpuTreeFromInt5 gives a node, as the sequence of the loop
\* indices printed into it: "p0d1" is <<0, 1>>, the system node is <<>>
RECURSIVE NameOf(_)
NameOf(t) ==
    IF nodes[t].parent = NilNode THEN <<>>
    ELSE LET parent == nodes[t].parent
             k == CHOOSE k \in DOMAIN nodes[parent].children : nodes[parent].children[k] = t
         IN Append(NameOf(parent), k - 1)

\* verifyNotOn reports no error: no CPU of cpus has a thread name that
\* contains nameContents (the name of a topology element)
verifyNotOn(nameContents, cpus) ==
    \A c \in cpus :
        LET threadName == NameOf(TopoName(csit[c], "thread"))
        IN SubSeq(threadName, 1, Len(nameContents)) # nameContents

\* csit.verifyDisjoint reports no error: no element of the level holds a CPU
\* of both sets
verifyDisjoint(topoLevel, cpusA, cpusB) ==
    {TopoName(csit[a], topoLevel) : a \in cpusA} \cap {TopoName(csit[b], topoLevel) : b \in cpusB} = {}

\* strings.Contains(fmt.Sprintf("%s", err), text) for a non-nil err.  The
\* text the cases expect is the whole message of one error and no part of
\* the messages of the others.
Contains(err, text) == err = text

\* the assertions of iteration k (0-based) of the loop over tc.deltas report
\* no error: r is what ResizeCpus returned, cur and ccids are currentCpus
\* and ccidCurrentCpus after the bookkeeping under tc.allocate
ExpectationsMet(c, k, r, cur, ccids) ==
    /\ k < Len(c.expectAddSizes) => c.expectAddSizes[k + 1] = Cardinality(r.addFrom)
    /\ k < Len(c.expectErrors) =>
          IF c.expectErrors[k + 1] = "" THEN r.err = ErrNil
          ELSE r.err # ErrNil /\ Contains(r.err, c.expectErrors[k + 1])
    /\ c.allocate =>
          /\ (k < Len(c.expectCurrentOnSame) /\ c.expectCurrentOnSame[k + 1] # "")
                => verifySame(c.expectCurrentOnSame[k + 1], cur)
          /\ (k < Len(c.expectCurrentNotOn) /\ c.expectCurrentNotOn[k + 1] # <<>>)
                => verifyNotOn(c.expectCurrentNotOn[k + 1], cur)
          /\ (k < Len(c.expectAllOnSame) /\ c.expectAllOnSame[k + 1] # "")
                => verifySame(c.expectAllOnSame[k + 1], UNION {ccids[q] : q \in DOMAIN ccids})
          /\ (k < Len(c.expectDisjoint) /\ Len(c.expectDisjoint) > 1)
                => LET e == c.expectDisjoint[k + 1]
                   IN \A first, second \in 1..Len(e.ccids) :
                         first < second =>
                            verifyDisjoint(e.topo, Lookup(ccids, e.ccids[first]),
                                           Lookup(ccids, e.ccids[second]))

\* state of t.Run(tc.name, ...) before the loop over tc.deltas, in a test
\* binary built with any of the sorts of the library
InitTest ==
    /\ tc \in TestNames
    /\ ties \in LibrarySorts
    /\ failed = FALSE
    /\ nodes = BuiltTrees[TestCases[tc].topology].h
    /\ ta = [root |-> 1, topologyBalancing |-> TestCases[tc].allocatorTB]
    /\ currentCpus = TestCases[tc].allocations
    /\ freeCpus = Cpus(1) \ TestCases[tc].allocations
    /\ ccidCurrentCpus = (0 :> currentCpus)
    /\ i = 0
    /\ args = [currentCpus |-> {}, freeCpus |-> {}, delta |-> 0]
    /\ ret = [addFrom |-> {}, removeFrom |-> {}, err |-> ErrNil]
    /\ called = FALSE

\* one iteration of "for i, delta := range tc.deltas"; the loop is left by
\* the break once an assertion has failed
TestResizeCpusStep ==
    /\ tc \in TestNames
    /\ ~failed
    /\ i < Len(TestCases[tc].deltas)
    /\ LET c == TestCases[tc]
           delta == c.deltas[i + 1]
           ccid == IF i < Len(c.operateOnCcid) THEN c.operateOnCcid[i + 1] ELSE 0
           cur0 == IF ccid > 0 THEN Lookup(ccidCurrentCpus, ccid) ELSE currentCpus
       IN \E r \in ResizeCpus(ta, cur0, freeCpus, delta) :
            LET added == IF c.allocate THEN FirstN(r.addFrom, delta) ELSE {}
                removed == IF c.allocate THEN FirstN(r.removeFrom, -delta) ELSE {}
                cur1 == IF ccid > 0 THEN (cur0 \cup added) \ removed ELSE cur0 \cup added
                ccids1 == IF c.allocate /\ ccid > 0
                          THEN [k \in DOMAIN ccidCurrentCpus \cup {ccid} |->
                                  IF k = ccid THEN cur1 ELSE ccidCurrentCpus[k]]
                          ELSE ccidCurrentCpus
            IN /\ args' = [currentCpus |-> cur0, freeCpus |-> freeCpus, delta |-> delta]
               /\ ret' = r
               /\ called' = TRUE
               /\ freeCpus' = (freeCpus \ added) \cup removed
               /\ currentCpus' = cur1
               /\ ccidCurrentCpus' = ccids1
               /\ failed' = ~ExpectationsMet(c, i, r, cur1, ccids1)
               /\ i' = i + 1
    /\ UNCHANGED <<nodes, ta, tc, ties>>

----------------------------------------------------------------------------
(* The earlier revision of the driver TestResizeCpus                       *)

\* state of t.Run(tc.name, ...) before the loop over tc.deltas, in a test
\* binary built with any of the sorts of the library
InitEarlierTest ==
    /\ tc \in EarlierTestNames
    /\ ties \in LibrarySorts
    /\ failed = FALSE
    /\ nodes = BuiltTrees[EarlierTestCases[tc].topology].h
    /\ ta = [root |-> 1, topologyBalancing |-> FALSE]
    /\ currentCpus = EarlierTestCases[tc].allocations
    /\ freeCpus = Cpus(1) \ EarlierTestCases[tc].allocations
    /\ ccidCurrentCpus = (0 :> currentCpus)
    /\ i = 0
    /\ args = [currentCpus |-> {}, freeCpus |-> {}, delta |-> 0]
    /\ ret = [addFrom |-> {}, removeFrom |-> {}, err |-> ErrNil]
    /\ called = FALSE

\* one iteration of "for i, delta := range tc.deltas": the first delta CPUs
\* of addFrom move from freeCpus to currentCpus, then the first -delta CPUs
\* of removeFrom move from currentCpus to freeCpus
EarlierTestResizeCpusStep ==
    /\ tc \in EarlierTestNames
    /\ i < Len(EarlierTestCases[tc].deltas)
    /\ LET c == EarlierTestCases[tc]
           delta == c.deltas[i + 1]
       IN \E r \in ResizeCpus(ta, currentCpus, freeCpus, delta) :
            LET added == IF c.allocate THEN FirstN(r.addFrom, delta) ELSE {}
                removed == IF c.allocate THEN FirstN(r.removeFrom, -delta) ELSE {}
            IN /\ args' = [currentCpus |-> currentCpus, freeCpus |-> freeCpus, delta |-> delta]
               /\ ret' = r
               /\ called' = TRUE
               /\ currentCpus' = (currentCpus \cup added) \ removed
               /\ freeCpus' = (freeCpus \ added) \cup removed
               /\ i' = i + 1
    /\ UNCHANGED <<nodes, ta, tc, ccidCurrentCpus, ties, failed>>

----------------------------------------------------------------------------
(* Direct calls of ResizeCpus on small trees                               *)

\* largest |delta| of a direct call
MaxDelta == 3

\* a tree whose leaves lie at different depths:
\*   root[ a(0), b[ c(1), d[ e(2), f(3) ] ] ]
UnevenTree ==
    LET h0 == NewCpuTree(NewCpuTree(NewCpuTree(NewCpuTree(NewCpuTree(NewCpuTree(NewCpuTree(<<>>)))))))
        h1 == AddChild(h0, 1, 2)
        h2 == AddCpus(h1, 2, {0})
        h3 == AddChild(h2, 1, 3)
        h4 == AddChild(h3, 3, 4)
        h5 == AddCpus(h4, 4, {1})
        h6 == AddChild(h5, 3, 5)
        h7 == AddChild(h6, 5, 6)
        h8 == AddCpus(h7, 6, {2})
        h9 == AddChild(h8, 5, 7)
    IN AddCpus(h9, 7, {3})

\* the trees of the direct calls, each with the nodes NewAllocator is called on
CallTrees ==
    {[h |-> newCpuTreeFromInt5(<<1, 1, 1, 2, 2>>).h, roots |-> {1, 5}],
     [h |-> newCpuTreeFromInt5(<<2, 1, 1, 1, 2>>).h, roots |-> {1, 2}],
     [h |-> UnevenTree, roots |-> {1, 3}]}

\* the CPU ids the sets of a direct call are drawn from: the CPUs of the
\* tree and one id that is no CPU of the tree
CallCpus(h) == h[1].cpus \cup {Cardinality(h[1].cpus)}

\* a caller that is about to make one call ta.ResizeCpus(currentCpus, freeCpus, delta)
InitCall ==
    /\ tc = "call"
    /\ ties = "unspecified"
    /\ failed = FALSE
    /\ \E tree \in CallTrees :
         /\ nodes = tree.h
         /\ \E root \in tree.roots, tb \in BOOLEAN : ta = [root |-> root, topologyBalancing |-> tb]
         /\ currentCpus \in SUBSET CallCpus(tree.h)
         /\ freeCpus \in SUBSET CallCpus(tree.h)
    /\ \E delta \in (-MaxDelta)..MaxDelta :
         args = [currentCpus |-> currentCpus, freeCpus |-> freeCpus, delta |-> delta]
    /\ ccidCurrentCpus = (0 :> currentCpus)
    /\ i = 0
    /\ ret = [addFrom |-> {}, removeFrom |-> {}, err |-> ErrNil]
    /\ called = FALSE

\* the call is made and returns
CallResizeCpus ==
    /\ tc = "call"
    /\ ~called
    /\ ret' \in ResizeCpus(ta, args.currentCpus, args.freeCpus, args.delta)
    /\ called' = TRUE
    /\ UNCHANGED <<nodes, ta, tc, i, currentCpus, freeCpus, ccidCurrentCpus, args, ties, failed>>

----------------------------------------------------------------------------

Init == InitTest \/ InitEarlierTest \/ InitCall

Next == TestResizeCpusStep \/ EarlierTestResizeCpusStep \/ CallResizeCpus

Spec == Init /\ [][Next]_vars

----------------------------------------------------------------------------
(* Vocabulary of the properties: the tree as seen from the allocator's root *)

\* the nodes of the branch whose topmost node is t
RECURSIVE Branch(_)
Branch(t) == {t} \cup UNION {Branch(nodes[t].children[k]) : k \in DOMAIN nodes[t].children}

\* the nodes from the allocator's root down to t (t in Branch(ta.root))
RECURSIVE PathTo(_)
PathTo(t) == IF t = ta.root THEN <<t>> ELSE Append(PathTo(nodes[t].parent), t)

\* depth of t below the allocator's root
DepthOf(t) == Len(PathTo(t)) - 1

\* root-to-node vector of the numbers of CPUs of S on each node of the path
CountVector(t, S) ==
    LET path == PathTo(t)
    IN [k \in DOMAIN path |-> Cardinality(nodes[path[k]].cpus \cap S)]

\* number of CPUs of S the node covers
CountAt(t, S) == Cardinality(nodes[t].cpus \cap S)

\* a before b in lexicographic order, compared from depth 0 downward
LexLess(a, b) ==
    \E k \in DOMAIN a : k \in DOMAIN b /\ a[k] < b[k] /\ \A m \in 1..(k - 1) : a[m] = b[m]

\* the deepest nodes among a set of nodes of the branch
Deepest(N) ==
    LET depth == [t \in N |-> DepthOf(t)]
        deepest == Max({depth[t] : t \in N})
    IN {t \in N : depth[t] = deepest}

RootCpus == nodes[ta.root].cpus

----------------------------------------------------------------------------
(* Properties                                                              *)

\* C1  Growth result: when the allocator's root covers at least delta > 0
\* free CPUs, ResizeCpus returns no error and addFrom is the free part of
\* one tree node, a subset of free with at least delta CPUs.
C1_GrowthResult ==
    (called /\ args.delta > 0 /\ CountAt(ta.root, args.freeCpus) >= args.delta)
    => /\ ret.err = ErrNil
       /\ ret.addFrom \subseteq args.freeCpus
       /\ Cardinality(ret.addFrom) >= args.delta
       /\ \E t \in Branch(ta.root) : ret.addFrom = nodes[t].cpus \cap args.freeCpus

\* a growth that returned a pool below the root with more CPUs than asked
C1_Witness ==
    /\ called /\ args.delta > 1
    /\ ret.err = ErrNil
    /\ Cardinality(ret.addFrom) > args.delta
    /\ ret.addFrom # RootCpus \cap args.freeCpus

\* C2 as amended: a shrink by |delta| succeeds with |removeFrom| = |delta|
\* and removeFrom a subset of the current set passed in, when the branch of
\* the allocator's root covers at least |delta| CPUs of the current set.
C2_ShrinkResultCovered ==
    (called /\ args.delta < 0 /\ CountAt(ta.root, args.currentCpus) >= -args.delta)
    => /\ ret.err = ErrNil
       /\ Cardinality(ret.removeFrom) = -args.delta
       /\ ret.removeFrom \subseteq args.currentCpus

\* a shrink by 2 of a set that also holds a CPU outside the allocator's branch
C2_Witness ==
    /\ called /\ args.delta = -2
    /\ ~(args.currentCpus \subseteq RootCpus)
    /\ CountAt(ta.root, args.currentCpus) = 2
    /\ ret.err = ErrNil /\ Cardinality(ret.removeFrom) = 2

\* C2 as stated: a shrink by |delta| succeeds with |removeFrom| = |delta|
\* and removeFrom a subset of current whenever |current| >= |delta|.
C2_ShrinkResultAnyCurrent ==
    (called /\ args.delta < 0 /\ Cardinality(args.currentCpus) >= -args.delta)
    => /\ ret.err = ErrNil
       /\ Cardinality(ret.removeFrom) = -args.delta
       /\ ret.removeFrom \subseteq args.currentCpus

\* C3  Overcommit: a growth by more CPUs than the allocator's root has free
\* fails with "not enough free CPUs"; growth by 33 on the 32-CPU tree does.
C3_Overcommit ==
    (called /\ args.delta > 0 /\ CountAt(ta.root, args.freeCpus) < args.delta)
    => ret.err = ErrNotEnoughFree

\* the case "too large an allocation" has failed, all 32 CPUs being free
C3_Witness ==
    /\ called /\ tc = "toolarge" /\ args.delta = 33
    /\ Cardinality(args.freeCpus) = 32
    /\ ret.err = ErrNotEnoughFree

\* the error the release path is specified to report
ErrNotEnoughToRelease == "not enough CPUs to release"

\* C4  Infeasible release has its own error: a release of one CPU for which
\* no tree node holds a current CPU fails with "not enough CPUs to release",
\* which is not the error of a failed growth.
C4_ReleaseError ==
    (called /\ args.delta = -1 /\ \A t \in Branch(ta.root) : CountAt(t, args.currentCpus) = 0)
    => (ret.err = ErrNotEnoughToRelease /\ ret.err # ErrNotEnoughFree)

\* C5  Zero delta is a no-op: no error, empty addFrom, empty removeFrom.
C5_ZeroDelta ==
    (called /\ args.delta = 0)
    => (ret.err = ErrNil /\ ret.addFrom = {} /\ ret.removeFrom = {})

\* a zero delta was requested for a set with current and free CPUs in the tree
C5_Witness ==
    /\ called /\ args.delta = 0
    /\ args.currentCpus \cap RootCpus # {}
    /\ args.freeCpus \cap RootCpus # {}
    /\ ret.err = ErrNil /\ ret.addFrom = {}

\* the nodes of the allocator's branch that cover at least d CPUs of S
NodesWith(d, S) == {t \in Branch(ta.root) : CountAt(t, S) >= d}

\* the nodes of N (nodes of one depth, with count vectors vec) that have the
\* largest entry at index k, among these the largest at k + 1, and so on
RECURSIVE LexMaxFrom(_, _, _)
LexMaxFrom(N, vec, k) ==
    IF N = {} \/ \A t \in N : k > Len(vec[t]) THEN N
    ELSE LET largest == Max({vec[t][k] : t \in N})
         IN LexMaxFrom({t \in N : vec[t][k] = largest}, vec, k + 1)

\* the same with the smallest entries
RECURSIVE LexMinFrom(_, _, _)
LexMinFrom(N, vec, k) ==
    IF N = {} \/ \A t \in N : k > Len(vec[t]) THEN N
    ELSE LET smallest == Min({vec[t][k] : t \in N})
         IN LexMinFrom({t \in N : vec[t][k] = smallest}, vec, k + 1)

\* the nodes of N, a set of nodes of one depth, whose count vector over S is
\* lexicographically largest
LexMax(N, S) == LexMaxFrom(N, [t \in N |-> CountVector(t, S)], 1)

\* the nodes of N, a set of nodes of one depth, whose count vector over S is
\* lexicographically smallest
LexMin(N, S) == LexMinFrom(N, [t \in N |-> CountVector(t, S)], 1)

\* the leaves of the allocator's branch all lie at one depth
LeavesAtOneDepth ==
    Cardinality({DepthOf(t) : t \in {u \in Branch(ta.root) : nodes[u].children = <<>>}}) = 1

\* the union of the sets of all ccids (allCpus of the driver)
AllCcidCpus == UNION {ccidCurrentCpus[k] : k \in DOMAIN ccidCurrentCpus}

\* expectAddSizes of the case "first allocations"
FirstExpectAddSizes == TestCases.first.expectAddSizes

\* C6  First allocations sizing: on [2,2,2,2,2], nothing current and all
\* CPUs free, a growth by d returns as many CPUs as the smallest topology
\* element with at least d CPUs has (the sizes the case expects); and in
\* every growth the chosen node is one of the deepest nodes that have at
\* least delta free CPUs.
C6_FirstAllocations ==
    /\ (called /\ tc = "first")
       => /\ ret.err = ErrNil
          /\ Cardinality(ret.addFrom) = FirstExpectAddSizes[i]
          /\ args.delta > 0 =>
                Cardinality(ret.addFrom) =
                    Min({Cardinality(nodes[t].cpus) : t \in NodesWith(args.delta, RootCpus)})
    /\ (called /\ args.delta > 0 /\ ret.err = ErrNil)
       => \E t \in Deepest(NodesWith(args.delta, args.freeCpus)) :
             ret.addFrom = nodes[t].cpus \cap args.freeCpus

\* the growth by 9 of the case has returned the 16 CPUs of a package
C6_Witness ==
    /\ called /\ tc = "first" /\ args.delta = 9
    /\ args.currentCpus = {} /\ Cardinality(args.freeCpus) = 32
    /\ Cardinality(ret.addFrom) = 16

\* expectCurrentOnSame and expectAddSizes of the case "inflate"
InflateExpectCurrentOnSame == TestCases.inflate.expectCurrentOnSame
InflateExpectAddSizes == TestCases.inflate.expectAddSizes

\* C7  Growth keeps a balloon local: the chosen node is, among the deepest
\* nodes with at least delta free CPUs, one whose root-to-node vector of
\* current counts is lexicographically largest; in the case "inflate" the
\* balloon stays on one core, NUMA node, die and package as expected and
\* the sizes of addFrom are 1,1,1,1,1,3,8,1,1.
C7_GrowthLocal ==
    /\ (called /\ args.delta > 0 /\ ret.err = ErrNil)
       => \E t \in LexMax(Deepest(NodesWith(args.delta, args.freeCpus)), args.currentCpus) :
             /\ ret.addFrom = nodes[t].cpus \cap args.freeCpus
             /\ ret.removeFrom = nodes[t].cpus \cap args.currentCpus
    /\ (called /\ tc = "inflate")
       => /\ ret.err = ErrNil
          /\ Cardinality(ret.addFrom) = InflateExpectAddSizes[i]
          /\ verifySame(InflateExpectCurrentOnSame[i], currentCpus)
          /\ currentCpus = args.currentCpus \cup FirstN(ret.addFrom, args.delta)

\* the balloon of "inflate" has grown by 6 into the second die of its package
C7_Witness ==
    /\ called /\ tc = "inflate" /\ i = 7 /\ args.delta = 6
    /\ Cardinality(args.currentCpus) = 8 /\ Cardinality(currentCpus) = 14
    /\ Cardinality(ret.addFrom) = 8
    /\ verifySame("package", currentCpus) /\ ~verifySame("die", currentCpus)

\* expectCurrentOnSame of the case "defragmenting single removals"
Defrag1ExpectCurrentOnSame == <<"", "package", "die", "numa", "core", "core", "core">>

\* the CPU a single release returned belongs to a node that, among the
\* deepest nodes holding a current CPU, has the smallest vector of current counts
ReleasedFromSmallestDeepest ==
    (called /\ args.delta = -1 /\ ret.err = ErrNil)
    => \E t \in LexMin(Deepest(NodesWith(1, args.currentCpus)), args.currentCpus) :
          ret.removeFrom = nodes[t].cpus \cap args.currentCpus

\* the CPU a single release returned lies in a child of the allocator's root
\* in which the balloon holds no more CPUs than in any other child it occupies
ReleasedFromFewestRegion ==
    (called /\ args.delta = -1 /\ ret.err = ErrNil)
    => \A k \in DOMAIN nodes[ta.root].children :
          LET region == nodes[ta.root].children[k]
          IN ret.removeFrom \cap nodes[region].cpus # {} =>
               \A q \in DOMAIN nodes[ta.root].children :
                   LET other == nodes[ta.root].children[q]
                   IN CountAt(other, args.currentCpus) >= 1 =>
                        CountAt(region, args.currentCpus) <= CountAt(other, args.currentCpus)

\* the seven releases of "defragmenting single removals" from {0,2,3,7,10,17,18}
Defrag1Collapses ==
    (called /\ tc = "earlier_defrag1")
    => /\ ret.err = ErrNil
       /\ Cardinality(ret.removeFrom) = 1
       /\ currentCpus = args.currentCpus \ ret.removeFrom
       /\ Defrag1ExpectCurrentOnSame[i] # "" =>
             verifySame(Defrag1ExpectCurrentOnSame[i], currentCpus)

\* C8  Release defragments: the CPU a single release returns belongs to a
\* node that, among the deepest nodes holding a current CPU, has the
\* lexicographically smallest root-to-node vector of current counts; on a
\* tree whose leaves all lie at one depth it therefore comes from a
\* top-level region in which the balloon holds the fewest (at least one)
\* CPUs; from {0,2,3,7,10,17,18} seven releases leave the balloon on one
\* package after step 2, one die after step 3, one NUMA node after step 4,
\* one core after steps 5, 6, 7.
C8_ReleaseDefragments ==
    /\ ReleasedFromSmallestDeepest
    /\ LeavesAtOneDepth => ReleasedFromFewestRegion
    /\ Defrag1Collapses

\* C8 as stated: the released CPU comes from the top-level region with the
\* fewest CPUs of the balloon on every tree
C8_ReleaseDefragmentsAnyTree ==
    /\ ReleasedFromSmallestDeepest
    /\ ReleasedFromFewestRegion
    /\ Defrag1Collapses

\* after the third release the balloon, spread over two packages at first,
\* is left with four CPUs on one die of two NUMA nodes
C8_Witness ==
    /\ called /\ tc = "earlier_defrag1" /\ i = 3
    /\ Cardinality(currentCpus) = 4
    /\ verifySame("die", currentCpus) /\ ~verifySame("numa", currentCpus)

\* the sets that k successive releases of one CPU can return in all, each
\* made with the CPUs chosen before it taken out of current and put into free
RECURSIVE SingleReleases(_, _, _)
SingleReleases(k, current, free) ==
    IF k = 0 THEN {{}}
    ELSE UNION {
        IF r.err # ErrNil THEN {}
        ELSE {r.removeFrom \cup rest :
                 rest \in SingleReleases(k - 1, current \ r.removeFrom, free \cup r.removeFrom)}
        : r \in ResizeCpus(ta, current, free, -1)}

\* C9  Multi-CPU release is the composition of single releases: for
\* delta = -k, ResizeCpus returns an empty addFrom and, when it succeeds (as
\* it does when the tree holds k current CPUs), a removeFrom that k
\* successive releases of one CPU return in all, each made on the working
\* sets left by the ones before it, and every such composition is a
\* possible return; the caller's sets are not modified.
C9_MultiRelease ==
    /\ (called /\ args.delta < 0)
       => /\ ret.addFrom = {}
          /\ CountAt(ta.root, args.currentCpus) >= -args.delta => ret.err = ErrNil
          /\ ret.err = ErrNil =>
                ret.removeFrom \in SingleReleases(-args.delta, args.currentCpus, args.freeCpus)
          /\ SingleReleases(-args.delta, args.currentCpus, args.freeCpus) =
                {r.removeFrom : r \in {q \in ResizeCpus(ta, args.currentCpus, args.freeCpus, args.delta) :
                                          q.err = ErrNil}}
    /\ (called /\ tc = "call")
       => (currentCpus = args.currentCpus /\ freeCpus = args.freeCpus)

\* a release of three CPUs of a balloon of four has returned
C9_Witness ==
    /\ called /\ tc = "call" /\ args.delta = -3
    /\ CountAt(ta.root, args.currentCpus) = 4
    /\ ret.err = ErrNil /\ Cardinality(ret.removeFrom) = 3
    /\ currentCpus = args.currentCpus

\* C10  Pack mode: in the case "pack allocations" the union of the sets
\* lies on one core after the 2nd growth and on one NUMA node after the 3rd
\* and the 4th (the four CPUs fill two cores); without topologyBalancing
\* the chosen node has, among the deepest feasible nodes with the largest
\* current counts, the lexicographically smallest vector of free counts.
C10_Pack ==
    /\ (called /\ args.delta > 0 /\ ret.err = ErrNil /\ ~ta.topologyBalancing)
       => \E t \in LexMin(LexMax(Deepest(NodesWith(args.delta, args.freeCpus)), args.currentCpus),
                          args.freeCpus) :
             /\ ret.addFrom = nodes[t].cpus \cap args.freeCpus
             /\ ret.removeFrom = nodes[t].cpus \cap args.currentCpus
    /\ (called /\ tc = "pack")
       => /\ ret.err = ErrNil
          /\ Cardinality(AllCcidCpus) = i
          /\ i = 2 => verifySame("core", AllCcidCpus)
          /\ i \in {3, 4} => verifySame("numa", AllCcidCpus)
          /\ i = 4 => Cardinality({TopoName(csit[c], "core") : c \in AllCcidCpus}) = 2

\* after the fourth growth four sets of one CPU each fill two cores of one
\* NUMA node
C10_Witness ==
    /\ called /\ tc = "pack" /\ i = 4
    /\ \A k \in 1..4 : k \in DOMAIN ccidCurrentCpus /\ Cardinality(ccidCurrentCpus[k]) = 1
    /\ Cardinality(AllCcidCpus) = 4
    /\ verifySame("numa", AllCcidCpus) /\ ~verifySame("core", AllCcidCpus)

\* expectDisjoint of the case "spread allocations"
SpreadExpectDisjoint ==
    <<[topo |-> "package", ccids |-> {}],
      [topo |-> "package", ccids |-> {1, 2}],
      [topo |-> "die", ccids |-> {1, 2, 3}],
      [topo |-> "die", ccids |-> {1, 2, 3, 4}],
      [topo |-> "numa", ccids |-> {1, 2, 3, 4, 5}],
      [topo |-> "numa", ccids |-> {1, 2, 3, 4, 5, 6}],
      [topo |-> "numa", ccids |-> {1, 2, 3, 4, 5, 6, 7}],
      [topo |-> "numa", ccids |-> {1, 2, 3, 4, 5, 6, 7, 8}]>>

\* C11  Spread mode: in the case "spread allocations" every growth puts one
\* CPU into a new set, and sets 1-2 lie on distinct packages, sets 1-3 and
\* 1-4 on pairwise distinct dies, sets 1-5 to 1-8 on pairwise distinct NUMA
\* nodes; with topologyBalancing the chosen node has, among the deepest
\* feasible nodes with the largest current counts, the lexicographically
\* largest vector of free counts.
C11_Spread ==
    /\ (called /\ args.delta > 0 /\ ret.err = ErrNil /\ ta.topologyBalancing)
       => \E t \in LexMax(LexMax(Deepest(NodesWith(args.delta, args.freeCpus)), args.currentCpus),
                          args.freeCpus) :
             /\ ret.addFrom = nodes[t].cpus \cap args.freeCpus
             /\ ret.removeFrom = nodes[t].cpus \cap args.currentCpus
    /\ (called /\ tc = "spread")
       => /\ ret.err = ErrNil
          /\ \A k \in 1..i : Cardinality(Lookup(ccidCurrentCpus, k)) = 1
          /\ \A a, b \in SpreadExpectDisjoint[i].ccids :
                a < b => verifyDisjoint(SpreadExpectDisjoint[i].topo,
                                        Lookup(ccidCurrentCpus, a), Lookup(ccidCurrentCpus, b))

\* after the eighth growth eight sets of one CPU each lie on the eight NUMA
\* nodes of the machine
C11_Witness ==
    /\ called /\ tc = "spread" /\ i = 8 /\ ta.topologyBalancing
    /\ \A k \in 1..8 : Cardinality(Lookup(ccidCurrentCpus, k)) = 1
    /\ Cardinality({TopoName(csit[c], "numa") : c \in AllCcidCpus}) = 8

\* the allocator NewAllocator builds on the same node with the other value
\* of topologyBalancing
OtherBalancing == [ta EXCEPT !.topologyBalancing = ~@]

\* C12  Release ignores the balancing option: for delta < 0 the allocator
\* built with the other value of topologyBalancing returns the same
\* removeFrom and the same error; among the deepest nodes holding a current
\* CPU that tie on the current counts, a single release takes the CPU of
\* one with the lexicographically smallest vector of free counts.
C12_ReleaseIgnoresBalancing ==
    /\ (called /\ args.delta < 0)
       => /\ ResizeCpus(OtherBalancing, args.currentCpus, args.freeCpus, args.delta)
               = ResizeCpus(ta, args.currentCpus, args.freeCpus, args.delta)
          /\ ret \in ResizeCpus(OtherBalancing, args.currentCpus, args.freeCpus, args.delta)
    /\ (called /\ args.delta = -1 /\ ret.err = ErrNil)
       => \E t \in LexMin(LexMin(Deepest(NodesWith(1, args.currentCpus)), args.currentCpus),
                          args.freeCpus) :
             ret.removeFrom = nodes[t].cpus \cap args.currentCpus

\* an allocator with topologyBalancing has released one CPU where the free
\* counts decided between nodes tied on depth and current counts
C12_Witness ==
    /\ called /\ args.delta = -1 /\ ret.err = ErrNil /\ ta.topologyBalancing
    /\ LexMin(LexMin(Deepest(NodesWith(1, args.currentCpus)), args.currentCpus), args.freeCpus)
         # LexMin(Deepest(NodesWith(1, args.currentCpus)), args.currentCpus)
    /\ args.currentCpus \cap args.freeCpus = {}
    /\ args.currentCpus \cup args.freeCpus \subseteq RootCpus

\* C13  Final tie-break by emission order, as stated: among the surviving
\* descriptors that are equal on depth and on both count vectors a growth
\* returns the sets of the one emitted last and a single release the sets
\* of the one emitted first, whatever moves the sort makes.
C13_TieBreakByEmission ==
    (called /\ (args.delta > 0 \/ args.delta = -1) /\ ret.err = ErrNil)
    => LET tnas == ToAttributedSlice(ta.root, args.currentCpus, args.freeCpus,
                                     [kind |-> "resize", delta |-> args.delta])
           tied == NotPreceded(ta, args.delta, tnas)
           winner == IF args.delta > 0 THEN Max(tied) ELSE Min(tied)
       IN /\ ret.removeFrom = tnas[winner].currentCpus
          /\ args.delta > 0 => ret.addFrom = tnas[winner].freeCpus

\* C14  Defragmenting multi-removal: from {0,2,4,6,8,9,10,24..31} on
\* [2,2,2,2,2] the requests -2, -1, -5, -3, each removeFrom applied to
\* current and free, leave no current CPU on die p0d1 after the -1, no
\* current CPU on package p0 and all on die p1d1 after the -5, and all
\* within one NUMA node of p1d1 after the -3.
C14_MultiRemoval ==
    (called /\ tc = "earlier_defrag2")
    => /\ ret.err = ErrNil
       /\ Cardinality(ret.removeFrom) = -args.delta
       /\ ret.removeFrom \subseteq args.currentCpus
       /\ currentCpus = args.currentCpus \ ret.removeFrom
       /\ freeCpus = args.freeCpus \cup ret.removeFrom
       /\ i = 2 => verifyNotOn(<<0, 1>>, currentCpus)
       /\ i = 3 => /\ verifyNotOn(<<0>>, currentCpus)
                   /\ verifySame("die", currentCpus)
                   /\ ~verifyNotOn(<<1, 1>>, currentCpus)
       /\ i = 4 => /\ verifySame("numa", currentCpus)
                   /\ ~verifyNotOn(<<1, 1>>, currentCpus)

\* after the -3 the four CPUs left fill the two cores of one NUMA node
C14_Witness ==
    /\ called /\ tc = "earlier_defrag2" /\ i = 4 /\ args.delta = -3
    /\ Cardinality(args.currentCpus) = 7 /\ Cardinality(currentCpus) = 4
    /\ verifySame("numa", currentCpus) /\ ~verifySame("core", currentCpus)

\* the set of ccid 8, the last balloon of the case "gentle rebalancing"
Balloon8 == Lookup(ccidCurrentCpus, 8)

\* the packages on which the sets of the ccids K hold CPUs
PackagesOf(K) ==
    {TopoName(csit[c], "package") : c \in UNION {Lookup(ccidCurrentCpus, k) : k \in K}}

\* sizes of the eight balloons of "gentle rebalancing"
GentleSizes == <<4, 4, 14, 7, 7, 4, 4, 14>>

\* the runs of the case: the eight allocations succeed with the stated
\* sizes, the four shrinks and the eight alternating operations succeed, and
\* balloon 8 is on one package after the 7th and the 8th of them
GentleRuns ==
    (called /\ tc = "gentle")
    => /\ ret.err = ErrNil
       /\ i \in 1..8 => /\ args.currentCpus = {}
                         /\ \A k \in 1..i : Cardinality(Lookup(ccidCurrentCpus, k)) = GentleSizes[k]
       /\ i \in 9..12 => Cardinality(Lookup(ccidCurrentCpus, i - 8)) = GentleSizes[i - 8] - 2
       /\ i \in {13, 15, 17, 19} => Cardinality(Balloon8) = 13
       /\ i \in {14, 16, 18, 20} => Cardinality(Balloon8) = 14
       /\ i \in {19, 20} => verifySame("package", Balloon8)

\* C15  Gentle rebalancing, as stated: the eighth balloon spills over and
\* holds CPUs on both packages after its allocation, and lies on a single
\* package after the 7th and the 8th of the alternating operations.
C15_GentleSpillsAndMigrates ==
    /\ GentleRuns
    /\ (called /\ tc = "gentle" /\ i = 8) => Cardinality(PackagesOf({8})) = 2

----------------------------------------------------------------------------
(* Direct calls of DepthFirstWalk                                          *)

\* the trees walked, each with the nodes DepthFirstWalk is called on:
\* the NUMA node and a core of [1,1,1,2,2], node b of the uneven tree
WalkTrees ==
    {[h |-> newCpuTreeFromInt5(<<1, 1, 1, 2, 2>>).h, starts |-> {4, 5}],
     [h |-> UnevenTree, starts |-> {3}]}

\* what a handler returns on a node: nil, one of the two errors of the
\* convention, or an error of its own
HandlerErrors == {ErrNil, WalkSkipChildren, WalkStop, "handler failed"}

\* a caller that is about to make one call t.DepthFirstWalk(handler);
\* ta.root is the node the walk starts on
InitWalk ==
    /\ tc = "walk"
    /\ ties = "unspecified"
    /\ failed = FALSE
    /\ \E tree \in WalkTrees :
         /\ nodes = tree.h
         /\ \E t \in tree.starts :
              /\ ta = [root |-> t, topologyBalancing |-> FALSE]
              /\ \E handler \in [Branch(t) -> HandlerErrors] :
                   args = [t |-> t, handler |-> handler]
    /\ currentCpus = {}
    /\ freeCpus = {}
    /\ ccidCurrentCpus = (0 :> {})
    /\ i = 0
    /\ ret = [calls |-> <<>>, err |-> ErrNil]
    /\ called = FALSE

\* the call is made and returns; ret = [calls, err]
CallDepthFirstWalk ==
    /\ tc = "walk"
    /\ ~called
    /\ ret' = DepthFirstWalk(args.t, args.handler)
    /\ called' = TRUE
    /\ UNCHANGED <<nodes, ta, tc, i, currentCpus, freeCpus, ccidCurrentCpus, args, ties, failed>>

WalkNext == CallDepthFirstWalk

WalkSpec == InitWalk /\ [][WalkNext]_vars

\* n comes before m in depth-first pre-order: n is a proper ancestor of m,
\* or where their paths of child indices part, n's index is the smaller
PreOrderBefore(n, m) ==
    LET a == NameOf(n)
        b == NameOf(m)
    IN \/ Len(a) < Len(b) /\ SubSeq(b, 1, Len(a)) = a
       \/ \E k \in 1..Len(a) :
            /\ k <= Len(b)
            /\ a[k] < b[k]
            /\ \A j \in 1..(k - 1) : a[j] = b[j]

\* the proper ancestors of n inside the walked branch
Above(n) == {PathTo(n)[k] : k \in 1..(Len(PathTo(n)) - 1)}

\* the nodes of the walked branch below no node the handler answers
\* "skip children" on
NotSkipped == {n \in Branch(args.t) : \A a \in Above(n) : args.handler[a] # WalkSkipChildren}

\* those of them on which the handler returns WalkStop or an error of its own
Stoppers == {n \in NotSkipped : args.handler[n] \notin {ErrNil, WalkSkipChildren}}

\* C16: DepthFirstWalk calls the handler in depth-first pre-order; the
\* descendants of a node answered with "skip children" are not visited while
\* the nodes after its subtree still are, and that answer never becomes the
\* returned error; once the handler returns WalkStop or another error it is
\* called on no further node and the walk returns that very error.  So the
\* calls are exactly the not-skipped nodes up to and including the first one
\* (in pre-order) the handler fails on, in pre-order, and the returned error
\* is nil when there is no such node.
C16_WalkConvention ==
    (tc = "walk" /\ called)
    => /\ \A j, k \in DOMAIN ret.calls : j < k => PreOrderBefore(ret.calls[j], ret.calls[k])
       /\ {ret.calls[k] : k \in DOMAIN ret.calls}
            = {n \in NotSkipped : \A s \in Stoppers : s = n \/ ~PreOrderBefore(s, n)}
       /\ Stoppers = {} => ret.err = ErrNil
       /\ Stoppers # {} => /\ ret.calls[Len(ret.calls)] \in Stoppers
                           /\ ret.err = args.handler[ret.calls[Len(ret.calls)]]

\* a walk in which the handler skipped the children of a node that has
\* children it would have accepted, went on to a node after that subtree,
\* and was stopped there
C16_Witness ==
    /\ tc = "walk" /\ called
    /\ ret.err = WalkStop
    /\ \E j \in DOMAIN ret.calls :
         /\ j < Len(ret.calls)
         /\ args.handler[ret.calls[j]] = WalkSkipChildren
         /\ nodes[ret.calls[j]].children # <<>>
         /\ \A c \in Branch(ret.calls[j]) \ {ret.calls[j]} : args.handler[c] = ErrNil

----------------------------------------------------------------------------
(* Direct calls of ToAttributedSlice                                       *)

\* the trees attributed, each with the nodes ToAttributedSlice is called on
AttributedTrees ==
    {[h |-> newCpuTreeFromInt5(<<1, 1, 1, 2, 2>>).h, roots |-> {4}],
     [h |-> UnevenTree, roots |-> {1, 3}]}

\* the filters of the calls: none, the closures resizeCpus builds, and the
\* closures that accept the descriptors of a given set of nodes
AttributionFilters(root) ==
    {[kind |-> "nil"]}
    \cup {[kind |-> "resize", delta |-> d] : d \in ((-MaxDelta)..MaxDelta) \ {0}}
    \cup {[kind |-> "nodes", accept |-> S] : S \in SUBSET Branch(root)}

\* a caller that is about to make one call
\* ta.root.ToAttributedSlice(currentCpus, freeCpus, filter)
InitAttribution ==
    /\ tc = "attribution"
    /\ ties = "unspecified"
    /\ failed = FALSE
    /\ \E tree \in AttributedTrees :
         /\ nodes = tree.h
         /\ \E root \in tree.roots :
              /\ ta = [root |-> root, topologyBalancing |-> FALSE]
              /\ currentCpus \in SUBSET tree.h[1].cpus
              /\ freeCpus \in SUBSET tree.h[1].cpus
              /\ \E filter \in AttributionFilters(root) :
                   args = [currentCpus |-> currentCpus, freeCpus |-> freeCpus, filter |-> filter]
    /\ ccidCurrentCpus = (0 :> currentCpus)
    /\ i = 0
    /\ ret = [tnas |-> <<>>]
    /\ called = FALSE

\* the call is made and returns; ret = [tnas]
CallToAttributedSlice ==
    /\ tc = "attribution"
    /\ ~called
    /\ ret' = [tnas |-> ToAttributedSlice(ta.root, args.currentCpus, args.freeCpus, args.filter)]
    /\ called' = TRUE
    /\ UNCHANGED <<nodes, ta, tc, i, currentCpus, freeCpus, ccidCurrentCpus, args, ties, failed>>

AttributionNext == CallToAttributedSlice

AttributionSpec == InitAttribution /\ [][AttributionNext]_vars

\* the relation R on D is irreflexive, asymmetric, transitive and total
IsStrictTotalOrder(R, D) ==
    /\ \A a \in D : <<a, a>> \notin R
    /\ \A a, b \in D : ~(<<a, b>> \in R /\ <<b, a>> \in R)
    /\ \A a, b, c \in D : (<<a, b>> \in R /\ <<b, c>> \in R) => <<a, c>> \in R
    /\ \A a, b \in D : a # b => (<<a, b>> \in R \/ <<b, a>> \in R)

\* the pairs of positions of the slice tnas on which the comparators answer true
AllocateOrder(alloc, tnas) ==
    {p \in (DOMAIN tnas) \X (DOMAIN tnas) : sorterAllocate(alloc, tnas, p[1], p[2])}

ReleaseOrder(alloc, tnas) ==
    {p \in (DOMAIN tnas) \X (DOMAIN tnas) : sorterRelease(alloc, tnas, p[1], p[2])}

\* C17: on the descriptors of one attribution sequence, taken at their
\* emission indices, the allocation comparator (with and without topology
\* balancing) and the release comparator are strict total orders: no
\* descriptor is less than itself, less(a,b) and less(b,a) never both hold,
\* less is transitive, and of two distinct descriptors exactly one is less
\* than the other.
C17_ComparatorsAreStrictOrders ==
    (tc = "attribution" /\ called)
    => \A tb \in BOOLEAN :
         LET alloc == [ta EXCEPT !.topologyBalancing = tb]
         IN /\ IsStrictTotalOrder(AllocateOrder(alloc, ret.tnas), DOMAIN ret.tnas)
            /\ IsStrictTotalOrder(ReleaseOrder(alloc, ret.tnas), DOMAIN ret.tnas)

\* an attribution sequence with two descriptors that tie on depth and on
\* both count vectors, so that only the index orders them, and with two
\* descriptors the two balancing modes order in opposite ways
C17_Witness ==
    /\ tc = "attribution" /\ called
    /\ \E a, b \in DOMAIN ret.tnas :
         /\ a # b
         /\ ret.tnas[a].depth = ret.tnas[b].depth
         /\ ret.tnas[a].currentCpuCounts = ret.tnas[b].currentCpuCounts
         /\ ret.tnas[a].freeCpuCounts = ret.tnas[b].freeCpuCounts
    /\ \E c, d \in DOMAIN ret.tnas :
         /\ sorterAllocate([ta EXCEPT !.topologyBalancing = TRUE], ret.tnas, c, d)
         /\ sorterAllocate([ta EXCEPT !.topologyBalancing = FALSE], ret.tnas, d, c)

\* the filter of the call accepts the descriptor of node n: the node with
\* the numbers of current and free CPUs it covers
Passes(n) ==
    FilterAccepts(args.filter, [t |-> n,
                                currentCpuCount |-> CountAt(n, args.currentCpus),
                                freeCpuCount |-> CountAt(n, args.freeCpus)])

\* the nodes of the emitted descriptors, in emission order
Emitted == [k \in DOMAIN ret.tnas |-> ret.tnas[k].t]

\* C18: ToAttributedSlice emits exactly the nodes that pass the filter
\* together with all their ancestors up to the allocator's root, in
\* depth-first pre-order (a node before its descendants, children in stored
\* order); no node of the subtree of a rejected node is emitted, not even
\* one the filter would accept.
C18_AttributionPruning ==
    (tc = "attribution" /\ called)
    => /\ {Emitted[k] : k \in DOMAIN Emitted}
            = {n \in Branch(ta.root) : \A k \in DOMAIN PathTo(n) : Passes(PathTo(n)[k])}
       /\ \A j, k \in DOMAIN Emitted : j < k => PreOrderBefore(Emitted[j], Emitted[k])
       /\ \A n \in Branch(ta.root) :
            ~Passes(n) => \A m \in Branch(n) : \A k \in DOMAIN Emitted : Emitted[k] # m

\* a call whose filter rejects a node that has a descendant the filter
\* accepts, and that emits a node after the rejected subtree
C18_Witness ==
    /\ tc = "attribution" /\ called
    /\ \E n \in Branch(ta.root) :
         /\ ~Passes(n)
         /\ \E m \in Branch(n) \ {n} : Passes(m)
         /\ \E k \in DOMAIN Emitted : PreOrderBefore(n, Emitted[k])

\* C19: every emitted descriptor of a node at depth d below the allocator's
\* root has current-count and free-count vectors of length d+1 whose entry
\* for depth k is the number of current resp. free CPUs that the node's
\* ancestor at depth k covers (the node itself at k = d); so the vectors
\* extend those of each ancestor's descriptor, and the descriptors of the
\* children leave the vectors of their parent's descriptor as they were.
C19_AttributionSoundness ==
    (tc = "attribution" /\ called)
    => \A k \in DOMAIN ret.tnas :
         LET tna == ret.tnas[k]
             path == PathTo(tna.t)
             d == Len(path) - 1
         IN /\ tna.depth = d
            /\ Len(tna.currentCpuCounts) = d + 1
            /\ Len(tna.freeCpuCounts) = d + 1
            /\ \A j \in 1..(d + 1) :
                 /\ tna.currentCpuCounts[j] = Cardinality(nodes[path[j]].cpus \cap args.currentCpus)
                 /\ tna.freeCpuCounts[j] = Cardinality(nodes[path[j]].cpus \cap args.freeCpus)
            /\ tna.currentCpuCount = tna.currentCpuCounts[d + 1]
            /\ tna.freeCpuCount = tna.freeCpuCounts[d + 1]
            /\ \A m \in DOMAIN ret.tnas :
                 ret.tnas[m].t \in Above(tna.t)
                 => /\ SubSeq(tna.currentCpuCounts, 1, Len(ret.tnas[m].currentCpuCounts))
                         = ret.tnas[m].currentCpuCounts
                    /\ SubSeq(tna.freeCpuCounts, 1, Len(ret.tnas[m].freeCpuCounts))
                         = ret.tnas[m].freeCpuCounts

\* a call that emits a descriptor two levels below the root whose counts of
\* current and of free CPUs are positive and shrink from level to level
C19_Witness ==
    /\ tc = "attribution" /\ called
    /\ \E k \in DOMAIN ret.tnas :
         /\ ret.tnas[k].depth = 2
         /\ ret.tnas[k].currentCpuCounts[1] > ret.tnas[k].currentCpuCounts[2]
         /\ ret.tnas[k].currentCpuCounts[2] > ret.tnas[k].currentCpuCounts[3]
         /\ ret.tnas[k].currentCpuCounts[3] > 0
         /\ ret.tnas[k].freeCpuCounts[1] > ret.tnas[k].freeCpuCounts[2]
         /\ ret.tnas[k].freeCpuCounts[2] > ret.tnas[k].freeCpuCounts[3]
         /\ ret.tnas[k].freeCpuCounts[3] > 0

----------------------------------------------------------------------------
(* Construction of trees by calls of NewCpuTree, AddChild and AddCpus      *)

\* largest number of nodes a caller creates
MaxNodes == 3

\* the CPU ids a caller adds
ConstructionCpus == {0, 1}

\* the caller of the construction calls
ConstructionCallers == {"construction"}

\* the ancestors of t: its parent, the parent's parent, ...
RECURSIVE AncestorsOf(_, _)
AncestorsOf(h, t) ==
    IF h[t].parent = NilNode THEN {} ELSE {h[t].parent} \cup AncestorsOf(h, h[t].parent)

\* no node has been created yet.  args keeps the last call, the heap it was
\* made on and what the caller has done so far: added[n] are the CPU ids of
\* its AddCpus calls on node n, onLeaves says that each of these calls was
\* made on a node without children
InitConstruction ==
    /\ tc \in ConstructionCallers
    /\ ties = "unspecified"
    /\ failed = FALSE
    /\ nodes = <<>>
    /\ ta = [root |-> NilNode, topologyBalancing |-> FALSE]
    /\ currentCpus = {}
    /\ freeCpus = {}
    /\ ccidCurrentCpus = (0 :> {})
    /\ i = 0
    /\ args = [op |-> "none", added |-> <<>>, onLeaves |-> TRUE]
    /\ ret = [addFrom |-> {}, removeFrom |-> {}, err |-> ErrNil]
    /\ called = FALSE

\* NewCpuTree(name)
CallNewCpuTree ==
    /\ tc \in ConstructionCallers
    /\ Len(nodes) < MaxNodes
    /\ nodes' = NewCpuTree(nodes)
    /\ args' = [op |-> "NewCpuTree", nodes |-> nodes,
                added |-> Append(args.added, {}), onLeaves |-> args.onLeaves]
    /\ called' = TRUE
    /\ UNCHANGED <<ta, tc, i, currentCpus, freeCpus, ccidCurrentCpus, ret, ties, failed>>

\* t.AddChild(child) by a caller that creates no cycle and no second parent:
\* child has no parent yet and is neither t nor above t.  (In a cycle of
\* parent links the recursion of AddCpus would not end.)
CallAddChild ==
    /\ tc \in ConstructionCallers
    /\ \E t, child \in DOMAIN nodes :
         /\ nodes[child].parent = NilNode
         /\ child # t
         /\ child \notin AncestorsOf(nodes, t)
         /\ nodes' = AddChild(nodes, t, child)
         /\ args' = [op |-> "AddChild", t |-> t, child |-> child, nodes |-> nodes,
                     added |-> args.added, onLeaves |-> args.onLeaves]
    /\ called' = TRUE
    /\ UNCHANGED <<ta, tc, i, currentCpus, freeCpus, ccidCurrentCpus, ret, ties, failed>>

\* t.AddCpus(cpus) on any node and with any set of CPU ids
CallAddCpus ==
    /\ tc \in ConstructionCallers
    /\ \E t \in DOMAIN nodes, cpus \in SUBSET ConstructionCpus :
         /\ nodes' = AddCpus(nodes, t, cpus)
         /\ args' = [op |-> "AddCpus", t |-> t, cpus |-> cpus, nodes |-> nodes,
                     added |-> [args.added EXCEPT ![t] = @ \cup cpus],
                     onLeaves |-> args.onLeaves /\ nodes[t].children = <<>>]
    /\ called' = TRUE
    /\ UNCHANGED <<ta, tc, i, currentCpus, freeCpus, ccidCurrentCpus, ret, ties, failed>>

ConstructionNext == CallNewCpuTree \/ CallAddChild \/ CallAddCpus

ConstructionSpec == InitConstruction /\ [][ConstructionNext]_vars

\* the caller has kept the obligations on its AddCpus calls: CPUs were added
\* to nodes without children only, and no CPU id to two nodes
AddCpusObligationsKept ==
    /\ args.onLeaves
    /\ \A m, n \in DOMAIN args.added : m # n => args.added[m] \cap args.added[n] = {}

\* every node that has children covers exactly the CPUs its children
\* cover, and no two children of a node share a CPU
TreeSound ==
    \A t \in DOMAIN nodes :
        LET chs == nodes[t].children
        IN /\ chs # <<>> => nodes[t].cpus = UNION {nodes[chs[k]].cpus : k \in DOMAIN chs}
           /\ \A j, k \in DOMAIN chs : j # k => nodes[chs[j]].cpus \cap nodes[chs[k]].cpus = {}

\* the last call was t.AddCpus(cpus), and it added cpus to t and to every
\* ancestor t had, and changed nothing else
AddCpusEffect ==
    args.op = "AddCpus"
    => /\ DOMAIN nodes = DOMAIN args.nodes
       /\ \A n \in DOMAIN nodes :
            nodes[n] = IF n = args.t \/ n \in AncestorsOf(args.nodes, args.t)
                       THEN [args.nodes[n] EXCEPT !.cpus = @ \cup args.cpus]
                       ELSE args.nodes[n]

\* C20  Tree soundness under construction: after any sequence of NewCpuTree,
\* AddChild and AddCpus calls that respects the caller's obligations (no
\* cycles, at most one parent per node, CPUs added only to leaf nodes, each
\* CPU id added to at most one leaf), in whatever order the AddChild and
\* AddCpus calls are interleaved, every node with children holds the union
\* of its children's CPUs and siblings are disjoint, and AddCpus(n, S) adds
\* S to n and to every ancestor of n and changes no other node.
C20_SoundInAnyOrder ==
    (tc \in ConstructionCallers /\ AddCpusObligationsKept) => (TreeSound /\ AddCpusEffect)

----------------------------------------------------------------------------
(* Internal errors, failed releases and ownership                          *)

\* the branch below the allocator's root is well formed: every node with
\* children covers exactly the CPUs of its children, every leaf exactly one
WellFormed ==
    \A t \in Branch(ta.root) :
        LET chs == nodes[t].children
        IN IF chs = <<>> THEN Cardinality(nodes[t].cpus) = 1
           ELSE nodes[t].cpus = UNION {nodes[chs[k]].cpus : k \in DOMAIN chs}

\* C21: on a well-formed tree (every non-leaf node covers the union of its
\* children's CPUs, every leaf exactly one CPU; leaves may lie at different
\* depths), for every current set, free set and delta < 0, a single release
\* step that succeeds returns exactly one CPU, taken from the current set
\* it was given (so never a CPU collected before), and ResizeCpus never
\* returns "internal error: failed to find single cpu to free" nor
\* "internal error: double release of a cpu".
C21_NoInternalError ==
    WellFormed
    => /\ (called /\ tc \in TestNames \cup EarlierTestNames \cup {"call"} /\ args.delta < 0)
          => ret.err \notin {ErrNoSingleCpu, ErrDoubleRelease}
       /\ tc = "call"
          => \A r \in resizeCpus(ta, args.currentCpus, args.freeCpus, -1) :
               r.err = ErrNil => /\ Cardinality(r.removeFrom) = 1
                                 /\ r.removeFrom \subseteq args.currentCpus

\* a release of several CPUs that succeeded on the tree whose leaves lie at
\* different depths, with current CPUs on leaves of different depths
C21_Witness ==
    /\ tc = "call" /\ called /\ WellFormed /\ ~LeavesAtOneDepth
    /\ args.delta <= -2
    /\ ret.err = ErrNil
    /\ Cardinality(ret.removeFrom) = -args.delta
    /\ Cardinality({DepthOf(t) : t \in {u \in Branch(ta.root) :
                       nodes[u].children = <<>> /\ nodes[u].cpus \cap ret.removeFrom # {}}}) >= 2

\* C22: when ResizeCpus is called with delta = -k and the tree covers only
\* m < k CPUs of the current set, the call returns an error, addFrom is
\* empty, and removeFrom holds exactly the m CPUs of the m single releases
\* that succeeded before the failing one: m CPUs of the current set, a
\* possible outcome of m successive single releases.
C22_PartialRelease ==
    (called /\ tc \in TestNames \cup EarlierTestNames \cup {"call"}
            /\ args.delta < 0 /\ CountAt(ta.root, args.currentCpus) < -args.delta)
    => /\ ret.err # ErrNil
       /\ ret.addFrom = {}
       /\ Cardinality(ret.removeFrom) = CountAt(ta.root, args.currentCpus)
       /\ ret.removeFrom \subseteq args.currentCpus
       /\ ret.removeFrom \in SingleReleases(CountAt(ta.root, args.currentCpus),
                                            args.currentCpus, args.freeCpus)

\* a release of three CPUs has failed after two successful steps, on a
\* current set that also holds a CPU the tree does not cover
C22_Witness ==
    /\ called /\ tc = "call" /\ args.delta = -3
    /\ CountAt(ta.root, args.currentCpus) = 2
    /\ Cardinality(args.currentCpus) = 3
    /\ ret.err # ErrNil
    /\ Cardinality(ret.removeFrom) = 2

----------------------------------------------------------------------------
(* The drivers as callers that own balloons                                *)

\* the case run by the driver moves CPUs between freeCpus and its sets
Allocates ==
    \/ tc \in TestNames /\ TestCases[tc].allocate
    \/ tc \in EarlierTestNames /\ EarlierTestCases[tc].allocate

\* the sets the driver keeps: the entries of ccidCurrentCpus in
\* TestResizeCpus, the one set currentCpus in its earlier revision
Balloons ==
    IF tc \in TestNames THEN ccidCurrentCpus ELSE (0 :> currentCpus)

\* C23: the drivers start with pairwise disjoint balloons and a free set
\* disjoint from them, and after every ResizeCpus that succeeded they move
\* delta CPUs of addFrom from free to the resized balloon or all of
\* removeFrom from it to free.  In every state they reach the balloons are
\* pairwise disjoint and disjoint from free, balloons and free together are
\* the CPUs of the machine, and a successful call changed the size of the
\* resized balloon by exactly delta.  For any single call on disjoint
\* current and free sets that succeeds, delta CPUs of addFrom can be taken
\* and all lie in free, and removeFrom is -delta CPUs of current: the move
\* keeps the sets of any caller apart.
C23_OwnershipConserved ==
    /\ Allocates
       => /\ \A a, b \in DOMAIN Balloons : a # b => Balloons[a] \cap Balloons[b] = {}
          /\ \A b \in DOMAIN Balloons : Balloons[b] \cap freeCpus = {}
          /\ freeCpus \cup UNION {Balloons[b] : b \in DOMAIN Balloons} = RootCpus
          /\ (called /\ ret.err = ErrNil)
             => Cardinality(currentCpus) = Cardinality(args.currentCpus) + args.delta
    /\ (tc = "call" /\ called /\ ret.err = ErrNil /\ args.currentCpus \cap args.freeCpus = {})
       => /\ args.delta > 0 => /\ Cardinality(ret.addFrom) >= args.delta
                               /\ ret.addFrom \subseteq args.freeCpus
          /\ args.delta < 0 => /\ Cardinality(ret.removeFrom) = -args.delta
                               /\ ret.removeFrom \subseteq args.currentCpus

\* in "gentle rebalancing" the eighth balloon has been shrunk and has grown
\* again by a CPU out of a free set that the shrinks of balloons 1-4 and its
\* own release have filled, while all eight balloons hold CPUs
C23_Witness ==
    /\ tc = "gentle" /\ called /\ i = 14
    /\ args.delta = 1 /\ ret.err = ErrNil
    /\ Cardinality(currentCpus) = 14 /\ currentCpus = Balloons[8]
    /\ \A b \in 1..8 : Balloons[b] # {}
    /\ Cardinality(freeCpus) = 14

====
